---------------------------- MODULE Spec2Model ----------------------------
(* A model of limp: the dependency records resolved against crates.io    *)
(* (src/src/storage.rs, src/src/crates.rs), the JSON store file          *)
(* (JsonStorage::load/save over files::open), the managed snippet        *)
(* directory (src/src/files.rs), the snippet reader (src/src/parser.rs)  *)
(* and the commands of src/src/actions.rs.                               *)
(*                                                                       *)
(* Option<T> is a sequence of length 0 (None) or 1 (Some).               *)
(* Result<T, LimpError> is [err, val]: err = "" and val = <<v>> for      *)
(* Ok(v), err = the LimpError variant and val = <<>> for Err.            *)
EXTENDS Integers, Sequences, FiniteSets, TLC

VARIABLES cfg, fs, js, pc, last

vars == <<cfg, fs, js, pc, last>>

--------------------------------------------------------------------------
(* Bounds and the finite universes the inputs are drawn from.            *)

MaxVersions == 2
MaxFeatures == 2

Names == {"serde", "tokio"}
VersionNums == {"1.0.0", "2.0.0"}
ReqVersions == VersionNums \cup {"9.9.9"}
FeatureNames == {"derive", "full"}

None == <<>>
Some(x) == <<x>>
IsSome(o) == Len(o) = 1
Unwrap(o) == o[1]

Ok(v) == [err |-> "", val |-> <<v>>]
Err(e) == [err |-> e, val |-> <<>>]
IsOk(r) == r.err = ""

SeqsUpTo(S, n) == UNION {[1..k -> S] : k \in 0..n}
Range(s) == {s[i] : i \in 1..Len(s)}

--------------------------------------------------------------------------
(* src/src/crates.rs                                                     *)

\* One element of CratesIoDependency.versions (a serde_json::Value): either it
\* deserializes as a Version (ok, with num and the optional feature map's keys)
\* or it does not.
Malformed == [ok |-> FALSE, num |-> "", features |-> None]
VersionValue(num, features) == [ok |-> TRUE, num |-> num, features |-> features]

VersionValues ==
    {Malformed,
     VersionValue("1.0.0", None),
     VersionValue("1.0.0", Some({"derive"})),
     VersionValue("2.0.0", Some({"derive"})),
     VersionValue("2.0.0", Some({"derive", "full"}))}

\* The documents from_cratesio can deserialize for one crate name.
CratesIoDependency(name) ==
    {[crate_info |-> name, versions |-> vs] : vs \in SeqsUpTo(VersionValues, MaxVersions)}

\* What from_cratesio(name) can return: the request or the parse of its body
\* fails, or a document.
from_cratesio(name) ==
    {Err("HttpError"), Err("ParserError")} \cup {Ok(d) : d \in CratesIoDependency(name)}

\* filter_map(from_value(..).ok()): the values that are Versions, in order.
get_all_versions(dep) == SelectSeq(dep.versions, LAMBDA v : v.ok)

get_version(dep, id) ==
    IF id + 1 <= Len(dep.versions)
    THEN IF dep.versions[id + 1].ok
         THEN Ok(dep.versions[id + 1])
         ELSE Err("ParserError")
    ELSE Err("VersionNotFound")

\* Version::get_features: the keys of the feature map, if there is one.
get_features(version) == version.features

\* Iterator::find on a vector: the first element that satisfies the test.
RECURSIVE FindNum(_, _)
FindNum(versions, num) ==
    IF versions = <<>> THEN None
    ELSE IF Head(versions).num = num THEN Some(Head(versions))
    ELSE FindNum(Tail(versions), num)

--------------------------------------------------------------------------
(* The files the tool reads and writes besides the store file: the       *)
(* user's snippet files and the managed snippet directory. What a path   *)
(* names is nothing, a directory, or a file with its content: lines for  *)
(* a snippet, JSON tokens for the store file.                            *)

Absent == [kind |-> "absent", data |-> <<>>]
Dir == [kind |-> "dir", data |-> <<>>]
File(data) == [kind |-> "file", data |-> data]

\* Path::exists
exists(entry) == entry.kind # "absent"

UserPaths == {"snip.txt", "snip.rs", "snip", "gone.txt"}

\* files::snippets_dir().join(format!("{name}.rs"))
SnippetPath(name) ==
    CASE name = "serde" -> "snippets/serde.rs"
      [] name = "tokio" -> "snippets/tokio.rs"

Paths == UserPaths \cup {SnippetPath(n) : n \in Names}

\* Path::extension
Extension(path) ==
    CASE path \in {"snip.txt", "gone.txt"} -> Some("txt")
      [] path = "snip" -> None
      [] OTHER -> Some("rs")

UseLine == "use std::io;"
UseOpen == "use std::{"
UseClose == "io};"
CodeLine == "fn main() {}"
Lines == {UseLine, UseOpen, UseClose, CodeLine}

\* tl.starts_with("use"), tl.ends_with('{'), tl.ends_with("};")
StartsWithUse(l) == l \in {UseLine, UseOpen}
EndsWithBrace(l) == l = UseOpen
EndsWithBraceSemi(l) == l = UseClose

SnippetTexts ==
    {<<>>, <<CodeLine>>, <<UseLine>>, <<UseLine, CodeLine>>, <<UseOpen, UseClose, CodeLine>>}

--------------------------------------------------------------------------
(* src/src/files.rs                                                      *)

\* files::open: read + append + create. A missing file comes into being
\* empty; what cannot be opened as a file is an IOError.
open(entry) ==
    IF entry.kind = "dir" THEN Err("IOError")
    ELSE IF entry.kind = "absent" THEN Ok(File(<<>>))
    ELSE Ok(entry)

\* [res, fs]: the path written, and the files after the call.
add_to_snippets_dir(files, name, content) ==
    LET path == SnippetPath(name) IN
    IF exists(files[path]) THEN [res |-> Err("SnippetExists"), fs |-> files]
    ELSE LET file == open(files[path]) IN
         [res |-> Ok(path),
          fs |-> [files EXCEPT ![path] = File(Unwrap(file.val).data \o content)]]

\* [res, fs]
remove_from_snippets_dir(files, name) ==
    LET path == SnippetPath(name) IN
    IF ~exists(files[path]) THEN [res |-> Ok("unit"), fs |-> files]
    ELSE IF files[path].kind = "dir" THEN [res |-> Err("IOError"), fs |-> files]
    ELSE [res |-> Ok("unit"), fs |-> [files EXCEPT ![path] = Absent]]

--------------------------------------------------------------------------
(* src/src/parser.rs                                                     *)

\* The loop of SnippetEntity::from_file over the lines read so far.
RECURSIVE ScanLines(_, _)
ScanLines(lines, st) ==
    IF lines = <<>> THEN st
    ELSE LET l == Head(lines)
             nx == IF st.found_code
                   THEN [st EXCEPT !.body = Append(@, l)]
                   ELSE IF st.in_imp_block
                   THEN [st EXCEPT !.imports = Append(@, l),
                                   !.in_imp_block = ~EndsWithBraceSemi(l)]
                   ELSE IF StartsWithUse(l)
                   THEN [st EXCEPT !.imports = Append(@, l),
                                   !.in_imp_block = EndsWithBrace(l)]
                   ELSE [st EXCEPT !.body = Append(@, l), !.found_code = TRUE]
         IN ScanLines(Tail(lines), nx)

\* SnippetEntity { imports, body }: each the joined lines, None when there are none.
SnippetEntity(lines) ==
    LET st == ScanLines(lines, [imports |-> <<>>, body |-> <<>>,
                                found_code |-> FALSE, in_imp_block |-> FALSE])
    IN [imports |-> IF st.imports = <<>> THEN None ELSE Some(st.imports),
        body |-> IF st.body = <<>> THEN None ELSE Some(st.body)]

\* SnippetEntity::from_file: opens (and so creates) the file, then refuses a
\* path without extension (EmptyFile) and a path whose extension IS "rs"
\* (NotSupported), and scans the lines otherwise.
from_file(files, path) ==
    LET file == open(files[path]) IN
    IF ~IsOk(file) THEN [res |-> Err(file.err), fs |-> files]
    ELSE LET opened == [files EXCEPT ![path] = Unwrap(file.val)] IN
         IF ~IsSome(Extension(path)) THEN [res |-> Err("EmptyFile"), fs |-> opened]
         ELSE IF Unwrap(Extension(path)) = "rs"
         THEN [res |-> Err("NotSupported"), fs |-> opened]
         ELSE [res |-> Ok(SnippetEntity(opened[path].data)), fs |-> opened]

\* The text of a SnippetEntity handed to add_to_snippets_dir (to_string): the
\* import block followed by the body block.
SnippetText(se) ==
    (IF IsSome(se.imports) THEN Unwrap(se.imports) ELSE <<>>)
        \o (IF IsSome(se.body) THEN Unwrap(se.body) ELSE <<>>)

--------------------------------------------------------------------------
(* src/src/storage.rs: JsonDependency                                    *)

JsonDependency(name, version, features, path_to_snippet) ==
    [name |-> name, version |-> version, features |-> features,
     path_to_snippet |-> path_to_snippet]

\* str::replace of one character by another.
RECURSIVE Replace(_, _, _)
Replace(str, from, to) ==
    IF str = "" THEN ""
    ELSE (IF SubSeq(str, 1, 1) = from THEN to ELSE SubSeq(str, 1, 1))
         \o Replace(SubSeq(str, 2, Len(str)), from, to)

\* features.iter().map(|f| format!("\"{f}\"")).collect::<Vec<String>>().join(sep)
RECURSIVE QuotedJoin(_, _)
QuotedJoin(features, sep) ==
    IF features = <<>> THEN ""
    ELSE "\"" \o Head(features) \o "\""
         \o (IF Len(features) = 1 THEN "" ELSE sep \o QuotedJoin(Tail(features), sep))

\* Display with a space inside each brace.
DisplaySpaced(dep) ==
    IF IsSome(dep.features)
    THEN dep.name \o " = { version = \"" \o dep.version \o "\", features = ["
         \o QuotedJoin(Unwrap(dep.features), ", ") \o "] }"
    ELSE dep.name \o " = \"" \o dep.version \o "\""

\* Display with the features joined by a comma alone.
DisplayTight(dep) ==
    IF IsSome(dep.features)
    THEN Replace(Replace(dep.name \o " = (version = \"" \o dep.version
                         \o "\", features = [" \o QuotedJoin(Unwrap(dep.features), ",")
                         \o "])", "(", "{"), ")", "}")
    ELSE dep.name \o " = \"" \o dep.version \o "\""

\* impl Display for JsonDependency: the line of the record in a manifest.
Display(dep) ==
    IF IsSome(dep.features)
    THEN Replace(Replace(dep.name \o " = (version = \"" \o dep.version
                         \o "\", features = [" \o QuotedJoin(Unwrap(dep.features), ", ")
                         \o "])", "(", "{"), ")", "}")
    ELSE dep.name \o " = \"" \o dep.version \o "\""

\* new with the last element of `versions` taken for the first.
new_oldest(name, crateio) ==
    IF ~IsOk(crateio) THEN Err(crateio.err)
    ELSE LET n == Len(Unwrap(crateio.val).versions)
             v0 == get_version(Unwrap(crateio.val), IF n = 0 THEN 0 ELSE n - 1)
         IN
         IF ~IsOk(v0) THEN Err(v0.err)
         ELSE Ok(JsonDependency(name, Unwrap(v0.val).num, None, None))

\* JsonDependency::new, given what from_cratesio(name) returned.
new(name, crateio) ==
    IF ~IsOk(crateio) THEN Err(crateio.err)
    ELSE LET v0 == get_version(Unwrap(crateio.val), 0) IN
         IF ~IsOk(v0) THEN Err(v0.err)
         ELSE Ok(JsonDependency(name, Unwrap(v0.val).num, None, None))

\* The snippet block of new_full with the path the user gave kept in the record.
LinkSnippetUserPath(files, name, path_to_snippet) ==
    IF ~IsSome(path_to_snippet) THEN [err |-> "", result_path |-> None, fs |-> files]
    ELSE LET path == Unwrap(path_to_snippet) IN
         IF ~exists(files[path])
         THEN [err |-> "SnippetNotFound", result_path |-> None, fs |-> files]
         ELSE LET se == from_file(files, path) IN
              IF ~IsOk(se.res)
              THEN [err |-> se.res.err, result_path |-> None, fs |-> se.fs]
              ELSE LET added == add_to_snippets_dir(se.fs, name,
                                                    SnippetText(Unwrap(se.res.val)))
                   IN [err |-> "",
                       result_path |-> IF IsOk(added.res) THEN Some(path) ELSE None,
                       fs |-> added.fs]

\* The snippet block of new_full (lines 107-118): [err, result_path, fs].
\* An Err of add_to_snippets_dir is dropped by `if let Ok(p)`.
LinkSnippet(files, name, path_to_snippet) ==
    IF ~IsSome(path_to_snippet) THEN [err |-> "", result_path |-> None, fs |-> files]
    ELSE LET path == Unwrap(path_to_snippet) IN
         IF ~exists(files[path])
         THEN [err |-> "SnippetNotFound", result_path |-> None, fs |-> files]
         ELSE LET se == from_file(files, path) IN
              IF ~IsOk(se.res)
              THEN [err |-> se.res.err, result_path |-> None, fs |-> se.fs]
              ELSE LET added == add_to_snippets_dir(se.fs, name,
                                                    SnippetText(Unwrap(se.res.val)))
                   IN [err |-> "",
                       result_path |-> IF IsOk(added.res)
                                       THEN Some(Unwrap(added.res.val)) ELSE None,
                       fs |-> added.fs]

\* The version block of new_full (lines 120-139): the error it returns, or "".
\* Features are looked at only inside `if let Some(version)`.
CheckVersion(crateiodep, version, features) ==
    IF ~IsSome(version) THEN ""
    ELSE LET finded_version == FindNum(get_all_versions(crateiodep), Unwrap(version)) IN
         IF ~IsSome(finded_version) THEN "VersionNotFound"
         ELSE IF ~IsSome(features) THEN ""
         ELSE LET finded_features == get_features(Unwrap(finded_version)) IN
              IF ~IsSome(finded_features) THEN "IncompatibleFeatures"
              ELSE IF \A i \in 1..Len(Unwrap(features)) :
                          Unwrap(features)[i] \in Unwrap(finded_features)
                   THEN ""
                   ELSE "IncompatibleFeatures"

\* new_full with the record given the latest version whatever was requested.
new_full_latest(files, name, version, features, path_to_snippet, crateio) ==
    IF ~IsOk(crateio) THEN [res |-> Err(crateio.err), fs |-> files]
    ELSE LET crateiodep == Unwrap(crateio.val)
             linked == LinkSnippet(files, name, path_to_snippet)
             verr == CheckVersion(crateiodep, version, features)
             v0 == get_version(crateiodep, 0)
         IN IF linked.err # "" THEN [res |-> Err(linked.err), fs |-> linked.fs]
            ELSE IF verr # "" THEN [res |-> Err(verr), fs |-> linked.fs]
            ELSE IF ~IsOk(v0) THEN [res |-> Err(v0.err), fs |-> linked.fs]
            ELSE [res |-> Ok(JsonDependency(name, Unwrap(v0.val).num, features,
                                            linked.result_path)),
                  fs |-> linked.fs]

\* JsonDependency::new_full, given what from_cratesio(name) returned:
\* [res, fs]. The argument of unwrap_or, get_version(0)?, is evaluated whether
\* or not a version was requested.
new_full(files, name, version, features, path_to_snippet, crateio) ==
    IF ~IsOk(crateio) THEN [res |-> Err(crateio.err), fs |-> files]
    ELSE LET crateiodep == Unwrap(crateio.val)
             linked == LinkSnippet(files, name, path_to_snippet)
             verr == CheckVersion(crateiodep, version, features)
             v0 == get_version(crateiodep, 0)
         IN IF linked.err # "" THEN [res |-> Err(linked.err), fs |-> linked.fs]
            ELSE IF verr # "" THEN [res |-> Err(verr), fs |-> linked.fs]
            ELSE IF ~IsOk(v0) THEN [res |-> Err(v0.err), fs |-> linked.fs]
            ELSE [res |-> Ok(JsonDependency(
                                 name,
                                 IF IsSome(version) THEN Unwrap(version)
                                                    ELSE Unwrap(v0.val).num,
                                 features,
                                 linked.result_path)),
                  fs |-> linked.fs]

\* update that forgets the features of the record.
update_dropping_features(dep, crateio) ==
    IF ~IsOk(crateio) THEN Err(crateio.err)
    ELSE LET v0 == get_version(Unwrap(crateio.val), 0) IN
         IF ~IsOk(v0) THEN Err(v0.err)
         ELSE Ok([dep EXCEPT !.version = Unwrap(v0.val).num, !.features = None])

\* JsonDependency::update, given what from_cratesio(self.name) returned.
update(dep, crateio) ==
    IF ~IsOk(crateio) THEN Err(crateio.err)
    ELSE LET v0 == get_version(Unwrap(crateio.val), 0) IN
         IF ~IsOk(v0) THEN Err(v0.err)
         ELSE Ok([dep EXCEPT !.version = Unwrap(v0.val).num])

--------------------------------------------------------------------------
(* The text of the store file, as the sequence of JSON tokens serde_json *)
(* writes and reads.                                                     *)

Str(x) == [t |-> "str", v |-> x]
Punct(p) == [t |-> p, v |-> ""]
LBrace == Punct("{")
RBrace == Punct("}")
LBracket == Punct("[")
RBracket == Punct("]")
Colon == Punct(":")
Comma == Punct(",")
Null == Punct("null")

Tok(toks, i) == IF i <= Len(toks) THEN toks[i] ELSE Punct("eof")
Fail == [ok |-> FALSE, val |-> <<>>, i |-> 0]
Parsed(v, i) == [ok |-> TRUE, val |-> v, i |-> i]

\* Elements joined by commas.
RECURSIVE Join(_)
Join(parts) ==
    IF parts = <<>> THEN <<>>
    ELSE IF Len(parts) = 1 THEN parts[1]
    ELSE parts[1] \o <<Comma>> \o Join(Tail(parts))

\* After a value of a sequence or a map: a comma and the next one, or the end.
\* `more` is the parse from the token after the comma on.
AfterValue(toks, v, close, more) ==
    IF ~v.ok THEN Fail
    ELSE IF Tok(toks, v.i).t = "," THEN more
    ELSE IF Tok(toks, v.i).t = close THEN Parsed(v.val, v.i + 1)
    ELSE Fail

\* A JSON value the deserializer has no field for is read and dropped
\* (serde's IgnoredAny).
RECURSIVE SkipValue(_, _), SkipElems(_, _), SkipElemsFrom(_, _), SkipMembers(_, _),
          SkipMembersFrom(_, _)
SkipValue(toks, i) ==
    CASE Tok(toks, i).t \in {"str", "null"} -> Parsed(<<>>, i + 1)
      [] Tok(toks, i).t = "[" -> IF Tok(toks, i + 1).t = "]" THEN Parsed(<<>>, i + 2)
                                 ELSE SkipElems(toks, i + 1)
      [] Tok(toks, i).t = "{" -> IF Tok(toks, i + 1).t = "}" THEN Parsed(<<>>, i + 2)
                                 ELSE SkipMembers(toks, i + 1)
      [] OTHER -> Fail
SkipElems(toks, i) == SkipElemsFrom(toks, SkipValue(toks, i))
SkipElemsFrom(toks, v) == AfterValue(toks, v, "]", SkipElems(toks, v.i + 1))
SkipMembers(toks, i) ==
    IF Tok(toks, i).t # "str" \/ Tok(toks, i + 1).t # ":" THEN Fail
    ELSE SkipMembersFrom(toks, SkipValue(toks, i + 2))
SkipMembersFrom(toks, v) == AfterValue(toks, v, "}", SkipMembers(toks, v.i + 1))

\* Vec<String>
RECURSIVE DeStrings(_, _, _)
DeStrings(toks, i, acc) ==
    IF Tok(toks, i).t # "str" THEN Fail
    ELSE AfterValue(toks, Parsed(Append(acc, Tok(toks, i).v), i + 1), "]",
                    DeStrings(toks, i + 2, Append(acc, Tok(toks, i).v)))
DeVecString(toks, i) ==
    IF Tok(toks, i).t # "[" THEN Fail
    ELSE IF Tok(toks, i + 1).t = "]" THEN Parsed(<<>>, i + 2)
    ELSE DeStrings(toks, i + 1, <<>>)

\* Some(v) of a parsed v.
SomeOf(v) == IF v.ok THEN Parsed(Some(v.val), v.i) ELSE Fail

\* Option<Vec<String>> and Option<String>: null is None.
DeOptVecString(toks, i) ==
    IF Tok(toks, i).t = "null" THEN Parsed(None, i + 1) ELSE SomeOf(DeVecString(toks, i))
DeString(toks, i) ==
    IF Tok(toks, i).t = "str" THEN Parsed(Tok(toks, i).v, i + 1) ELSE Fail
DeOptString(toks, i) ==
    IF Tok(toks, i).t = "null" THEN Parsed(None, i + 1) ELSE SomeOf(DeString(toks, i))

--------------------------------------------------------------------------
(* src/src/storage.rs: the serde derives of JsonDependency and           *)
(* JsonStorage. A JsonStorage is its `dependencies` map, a function from *)
(* the keys to Option<JsonDependency>.                                   *)

EmptyStorage == [k \in Names |-> None]
Keys(storage) == {k \in Names : IsSome(storage[k])}

\* SerJsonDependency with the features written as null always.
SerJsonDependencyNoFeatures(dep) ==
    <<LBrace, Str("name"), Colon, Str(dep.name), Comma,
      Str("version"), Colon, Str(dep.version), Comma,
      Str("features"), Colon, Null, Comma, Str("path_to_snippet"), Colon>>
    \o (IF IsSome(dep.path_to_snippet) THEN <<Str(Unwrap(dep.path_to_snippet))>> ELSE <<Null>>)
    \o <<RBrace>>

\* derive(Serialize) for JsonDependency: every field is written, in the order
\* of the struct, a None as null.
SerJsonDependency(dep) ==
    <<LBrace, Str("name"), Colon, Str(dep.name), Comma,
      Str("version"), Colon, Str(dep.version), Comma,
      Str("features"), Colon>>
    \o (IF IsSome(dep.features)
        THEN <<LBracket>>
             \o Join([i \in 1..Len(Unwrap(dep.features)) |-> <<Str(Unwrap(dep.features)[i])>>])
             \o <<RBracket>>
        ELSE <<Null>>)
    \o <<Comma, Str("path_to_snippet"), Colon>>
    \o (IF IsSome(dep.path_to_snippet) THEN <<Str(Unwrap(dep.path_to_snippet))>> ELSE <<Null>>)
    \o <<RBrace>>

\* The orders in which a HashMap may hand out its entries: any.
Orders(storage) ==
    {o \in [1..Cardinality(Keys(storage)) -> Keys(storage)] :
        \A i, j \in DOMAIN o : i # j => o[i] # o[j]}

\* derive(Serialize) for JsonStorage, its map iterated in `order`.
SerJsonStorage(storage, order) ==
    <<LBrace, Str("dependencies"), Colon, LBrace>>
    \o Join([i \in 1..Len(order) |->
                <<Str(order[i]), Colon>> \o SerJsonDependency(Unwrap(storage[order[i]]))])
    \o <<RBrace, RBrace>>

DepFields == {"name", "version", "features", "path_to_snippet"}

\* The value of one field of a JsonDependency; an unknown field is skipped.
DeDepField(toks, i, key) ==
    CASE key \in {"name", "version"} -> DeString(toks, i)
      [] key = "features" -> DeOptVecString(toks, i)
      [] key = "path_to_snippet" -> DeOptString(toks, i)
      [] OTHER -> SkipValue(toks, i)

\* The fields read so far with the field `key` set to the parsed v.
WithField(acc, key, v) ==
    IF ~v.ok THEN Fail
    ELSE Parsed(IF key \in DepFields THEN [acc EXCEPT ![key] = Some(v.val)] ELSE acc, v.i)

\* derive(Deserialize) for JsonDependency, from the first member on: a field
\* met twice is an error.
RECURSIVE DeDepMembers(_, _, _), DeDepMembersFrom(_, _)
DeDepMembers(toks, i, acc) ==
    IF Tok(toks, i).t # "str" \/ Tok(toks, i + 1).t # ":" THEN Fail
    ELSE IF Tok(toks, i).v \in DepFields /\ IsSome(acc[Tok(toks, i).v]) THEN Fail
    ELSE DeDepMembersFrom(toks, WithField(acc, Tok(toks, i).v,
                                          DeDepField(toks, i + 2, Tok(toks, i).v)))
DeDepMembersFrom(toks, v) == AfterValue(toks, v, "}", DeDepMembers(toks, v.i + 1, v.val))

\* name and version are required; features and path_to_snippet are
\* #[serde(default)].
DepOfFields(m) ==
    IF ~m.ok THEN Fail
    ELSE IF ~IsSome(m.val.name) \/ ~IsSome(m.val.version) THEN Fail
    ELSE Parsed(JsonDependency(
                    Unwrap(m.val.name),
                    Unwrap(m.val.version),
                    IF IsSome(m.val.features) THEN Unwrap(m.val.features) ELSE None,
                    IF IsSome(m.val.path_to_snippet)
                    THEN Unwrap(m.val.path_to_snippet) ELSE None),
                m.i)
DeJsonDependency(toks, i) ==
    IF Tok(toks, i).t # "{" THEN Fail
    ELSE IF Tok(toks, i + 1).t = "}" THEN DepOfFields(Parsed([f \in DepFields |-> None], i + 2))
    ELSE DepOfFields(DeDepMembers(toks, i + 1, [f \in DepFields |-> None]))

\* The map read so far with the parsed record d under `key`: a key met again
\* replaces the entry.
WithEntry(acc, key, d) ==
    IF ~d.ok THEN Fail ELSE Parsed([acc EXCEPT ![key] = Some(d.val)], d.i)

\* HashMap<String, JsonDependency>
RECURSIVE DeMapEntries(_, _, _), DeMapEntriesFrom(_, _)
DeMapEntries(toks, i, acc) ==
    IF Tok(toks, i).t # "str" \/ Tok(toks, i + 1).t # ":" THEN Fail
    ELSE DeMapEntriesFrom(toks, WithEntry(acc, Tok(toks, i).v, DeJsonDependency(toks, i + 2)))
DeMapEntriesFrom(toks, v) == AfterValue(toks, v, "}", DeMapEntries(toks, v.i + 1, v.val))
DeMap(toks, i) ==
    IF Tok(toks, i).t # "{" THEN Fail
    ELSE IF Tok(toks, i + 1).t = "}" THEN Parsed(EmptyStorage, i + 2)
    ELSE DeMapEntries(toks, i + 1, EmptyStorage)

\* The `dependencies` read so far (an Option) after the member whose value parsed as v.
WithDependencies(acc, known, v) ==
    IF ~v.ok THEN Fail ELSE Parsed(IF known THEN Some(v.val) ELSE acc, v.i)

\* derive(Deserialize) for JsonStorage: `dependencies` is #[serde(default)],
\* met twice it is an error, and any other field is skipped.
RECURSIVE DeStorageMembers(_, _, _), DeStorageMembersFrom(_, _)
DeStorageMembers(toks, i, acc) ==
    IF Tok(toks, i).t # "str" \/ Tok(toks, i + 1).t # ":" THEN Fail
    ELSE IF Tok(toks, i).v = "dependencies"
    THEN IF IsSome(acc) THEN Fail
         ELSE DeStorageMembersFrom(toks, WithDependencies(acc, TRUE, DeMap(toks, i + 2)))
    ELSE DeStorageMembersFrom(toks, WithDependencies(acc, FALSE, SkipValue(toks, i + 2)))
DeStorageMembersFrom(toks, v) ==
    AfterValue(toks, v, "}", DeStorageMembers(toks, v.i + 1, v.val))
StorageOfFields(m) ==
    IF ~m.ok THEN Fail
    ELSE Parsed(IF IsSome(m.val) THEN Unwrap(m.val) ELSE EmptyStorage, m.i)
DeJsonStorage(toks, i) ==
    IF Tok(toks, i).t # "{" THEN Fail
    ELSE IF Tok(toks, i + 1).t = "}" THEN StorageOfFields(Parsed(None, i + 2))
    ELSE StorageOfFields(DeStorageMembers(toks, i + 1, None))

\* serde_json::from_reader: one value, and nothing after it.
WholeText(toks, v) ==
    IF v.ok /\ v.i = Len(toks) + 1 THEN Ok(v.val) ELSE Err("ParserError")
from_reader(toks) == WholeText(toks, DeJsonStorage(toks, 1))

--------------------------------------------------------------------------
(* src/src/storage.rs: JsonStorage                                       *)

\* unwrap_or(JsonStorage::default()): what does not deserialize is the empty
\* storage.
unwrap_or_default(read) == IF IsOk(read) THEN Unwrap(read.val) ELSE EmptyStorage

\* LoadOpened with the error of from_reader returned (`?`) instead of dropped.
LoadOpenedStrict(file, opened) ==
    IF ~IsOk(opened) THEN [res |-> Err(opened.err), cfg |-> file]
    ELSE IF ~IsOk(from_reader(Unwrap(opened.val).data))
    THEN [res |-> Err("ParserError"), cfg |-> Unwrap(opened.val)]
    ELSE [res |-> Ok(unwrap_or_default(from_reader(Unwrap(opened.val).data))),
          cfg |-> Unwrap(opened.val)]

\* JsonStorage::load, once files::open has answered: [res, cfg], cfg what the
\* path names after the call.
LoadOpened(file, opened) ==
    IF ~IsOk(opened) THEN [res |-> Err(opened.err), cfg |-> file]
    ELSE [res |-> Ok(unwrap_or_default(from_reader(Unwrap(opened.val).data))),
          cfg |-> Unwrap(opened.val)]
load(file) == LoadOpened(file, open(file))

\* JsonStorage::save, once files::open has answered: set_len(0), to_writer.
\* [res, cfg].
SaveOpened(file, opened, storage, order) ==
    IF ~IsOk(opened) THEN [res |-> Err(opened.err), cfg |-> file]
    ELSE [res |-> Ok("unit"), cfg |-> File(SerJsonStorage(storage, order))]
save(file, storage, order) == SaveOpened(file, open(file), storage, order)

\* add that keeps the snippet path of the record it replaces when the new
\* record has none.
add_merging(storage, dep) ==
    [storage EXCEPT ![dep.name] =
        IF IsSome(@) /\ ~IsSome(dep.path_to_snippet)
        THEN Some([dep EXCEPT !.path_to_snippet = Unwrap(storage[dep.name]).path_to_snippet])
        ELSE Some(dep)]

\* JsonStorage::add: HashMap::insert under dep.name.
add(storage, dep) == [storage EXCEPT ![dep.name] = Some(dep)]

\* remove that empties the map.
remove_clearing(storage, name) == EmptyStorage

\* JsonStorage::remove
remove(storage, name) == [storage EXCEPT ![name] = None]

\* JsonStorage::get
get(storage, name) == storage[name]

--------------------------------------------------------------------------
(* src/src/actions.rs: CommandHandler::make_action                       *)

\* The entries of a HashMap as it hands them out when `perm` is the order of
\* its buckets.
Iteration(storage, perm) == SelectSeq(perm, LAMBDA k : IsSome(storage[k]))

KeyOrders == Orders([k \in Names |-> Some(k)])

\* What a command leaves: [res, cfg, fs, js], js the storage it held last.
Saved(storage, saved, files) ==
    [res |-> saved.res, cfg |-> saved.cfg, fs |-> files, js |-> storage]

NewDependencyResolved(file, storage, jd, perm) ==
    IF ~IsOk(jd.res)
    THEN [res |-> Err(jd.res.err), cfg |-> file, fs |-> jd.fs, js |-> storage]
    ELSE Saved(add(storage, Unwrap(jd.res.val)),
               save(file, add(storage, Unwrap(jd.res.val)),
                    Iteration(add(storage, Unwrap(jd.res.val)), perm)),
               jd.fs)

NewDependencyLoaded(loaded, files, name, version, features, path_to_snippet, crateio, perm) ==
    IF ~IsOk(loaded.res)
    THEN [res |-> Err(loaded.res.err), cfg |-> loaded.cfg, fs |-> files, js |-> EmptyStorage]
    ELSE NewDependencyResolved(loaded.cfg, Unwrap(loaded.res.val),
                               new_full(files, name, version, features,
                                        path_to_snippet, crateio),
                               perm)

\* Action::NewDependency: load, new_full, add, save.
NewDependency(file, files, name, version, features, path_to_snippet, crateio, perm) ==
    NewDependencyLoaded(load(file), files, name, version, features,
                        path_to_snippet, crateio, perm)

DeleteRemoved(file, storage, removed, perm) ==
    IF ~IsOk(removed.res)
    THEN [res |-> Err(removed.res.err), cfg |-> file, fs |-> removed.fs, js |-> storage]
    ELSE Saved(storage, save(file, storage, Iteration(storage, perm)), removed.fs)

DeleteLoaded(loaded, files, name, perm) ==
    IF ~IsOk(loaded.res)
    THEN [res |-> Err(loaded.res.err), cfg |-> loaded.cfg, fs |-> files, js |-> EmptyStorage]
    ELSE DeleteRemoved(loaded.cfg, remove(Unwrap(loaded.res.val), name),
                       remove_from_snippets_dir(files, name), perm)

\* Action::Delete: load, remove, remove_from_snippets_dir, save.
Delete(file, files, name, perm) == DeleteLoaded(load(file), files, name, perm)

\* WithSnippetPath with the path given to every record of the storage.
WithSnippetPathAll(storage, name, path) ==
    [k \in DOMAIN storage |->
        IF IsSome(storage[k])
        THEN Some([Unwrap(storage[k]) EXCEPT !.path_to_snippet = path])
        ELSE storage[k]]

\* The storage with the snippet path of the record under `name` set to `path`.
WithSnippetPath(storage, name, path) ==
    [storage EXCEPT ![name] = Some([Unwrap(storage[name]) EXCEPT !.path_to_snippet = path])]

LinkAdded(file, storage, name, added, perm) ==
    IF ~IsOk(added.res)
    THEN [res |-> Err(added.res.err), cfg |-> file, fs |-> added.fs, js |-> storage]
    ELSE IF ~IsSome(storage[name])
    THEN [res |-> Err("DependencyNotFound"), cfg |-> file, fs |-> added.fs, js |-> storage]
    ELSE Saved(WithSnippetPath(storage, name, added.res.val),
               save(file, WithSnippetPath(storage, name, added.res.val),
                    Iteration(storage, perm)),
               added.fs)

LinkParsed(file, storage, name, se, perm) ==
    IF ~IsOk(se.res)
    THEN [res |-> Err(se.res.err), cfg |-> file, fs |-> se.fs, js |-> storage]
    ELSE LinkAdded(file, storage, name,
                   add_to_snippets_dir(se.fs, name, SnippetText(Unwrap(se.res.val))),
                   perm)

LinkLoaded(loaded, files, name, path_to_snippet, perm) ==
    IF ~IsOk(loaded.res)
    THEN [res |-> Err(loaded.res.err), cfg |-> loaded.cfg, fs |-> files, js |-> EmptyStorage]
    ELSE LinkParsed(loaded.cfg, Unwrap(loaded.res.val), name,
                    from_file(files, path_to_snippet), perm)

\* Action::Link: load, from_file, add_to_snippets_dir, get_mut(name), save.
Link(file, files, name, path_to_snippet, perm) ==
    LinkLoaded(load(file), files, name, path_to_snippet, perm)

UnlinkRemoved(file, storage, removed, perm) ==
    IF ~IsOk(removed.res)
    THEN [res |-> Err(removed.res.err), cfg |-> file, fs |-> removed.fs, js |-> storage]
    ELSE Saved(storage, save(file, storage, Iteration(storage, perm)), removed.fs)

UnlinkLoaded(loaded, files, name, perm) ==
    IF ~IsOk(loaded.res)
    THEN [res |-> Err(loaded.res.err), cfg |-> loaded.cfg, fs |-> files, js |-> EmptyStorage]
    ELSE IF ~IsSome(Unwrap(loaded.res.val)[name])
    THEN [res |-> Err("DependencyNotFound"), cfg |-> loaded.cfg, fs |-> files,
          js |-> Unwrap(loaded.res.val)]
    ELSE UnlinkRemoved(loaded.cfg, WithSnippetPath(Unwrap(loaded.res.val), name, None),
                       remove_from_snippets_dir(files, name), perm)

\* Action::Unlink: load, get_mut(name), remove_from_snippets_dir, save.
Unlink(file, files, name, perm) == UnlinkLoaded(load(file), files, name, perm)

\* try_for_each(|d| d.update()) over iter_mut(), the entries visited in
\* `order`, fetch[n] what from_cratesio(n) returns: [err, js], err the first
\* error or "", js the map as the loop leaves it.
RECURSIVE UpdateEach(_, _, _)
UpdateEachFrom(storage, order, fetch, updated) ==
    IF ~IsOk(updated) THEN [err |-> updated.err, js |-> storage]
    ELSE UpdateEach([storage EXCEPT ![Head(order)] = updated.val], Tail(order), fetch)
UpdateEach(storage, order, fetch) ==
    IF order = <<>> THEN [err |-> "", js |-> storage]
    ELSE UpdateEachFrom(storage, order, fetch,
                        update(Unwrap(storage[Head(order)]),
                               fetch[Unwrap(storage[Head(order)]).name]))

\* The update arm that writes what it has when the loop fails.
UpdateDoneSaving(file, files, each, perm) ==
    IF each.err # ""
    THEN [res |-> Err(each.err),
          cfg |-> save(file, each.js, Iteration(each.js, perm)).cfg,
          fs |-> files, js |-> each.js]
    ELSE Saved(each.js, save(file, each.js, Iteration(each.js, perm)), files)

UpdateDone(file, files, each, perm) ==
    IF each.err # ""
    THEN [res |-> Err(each.err), cfg |-> file, fs |-> files, js |-> each.js]
    ELSE Saved(each.js, save(file, each.js, Iteration(each.js, perm)), files)

UpdateLoaded(loaded, files, fetch, perm) ==
    IF ~IsOk(loaded.res)
    THEN [res |-> Err(loaded.res.err), cfg |-> loaded.cfg, fs |-> files, js |-> EmptyStorage]
    ELSE UpdateDone(loaded.cfg, files,
                    UpdateEach(Unwrap(loaded.res.val),
                               Iteration(Unwrap(loaded.res.val), perm), fetch),
                    perm)

\* Action::Update: load, update every record, save.
Update(file, files, fetch, perm) == UpdateLoaded(load(file), files, fetch, perm)

--------------------------------------------------------------------------
(* Calls of the resolution functions: one call of JsonDependency::new or *)
(* JsonDependency::new_full on arguments, a crates.io answer and files   *)
(* drawn from the universes above.                                       *)

OptVersions == {None} \cup {Some(v) : v \in ReqVersions}
OptFeatures == {None} \cup {Some(f) : f \in SeqsUpTo(FeatureNames, MaxFeatures)}
OptPaths == {None} \cup {Some(p) : p \in UserPaths}

\* The user's files, and a managed snippet of serde present or not.
ResolveFiles ==
    {[p \in Paths |->
        CASE p = "snip.txt" -> File(text)
          [] p \in {"snip.rs", "snip"} -> File(<<CodeLine>>)
          [] p = SnippetPath("serde") -> managed
          [] OTHER -> Absent] :
     text \in {<<CodeLine>>, <<UseLine, CodeLine>>},
     managed \in {Absent, File(<<UseOpen, UseClose, CodeLine>>)}}

NoCall ==
    [op |-> "none", name |-> "", version |-> None, features |-> None,
     path_to_snippet |-> None, crateio |-> Err("HttpError"), res |-> Err("none"),
     fs |-> [p \in Paths |-> Absent]]

InitResolve ==
    /\ cfg = Absent
    /\ fs \in ResolveFiles
    /\ js = EmptyStorage
    /\ pc = "resolve"
    /\ last = NoCall

CallNewFull ==
    /\ pc = "resolve"
    /\ \E name \in Names, version \in OptVersions, features \in OptFeatures,
          path_to_snippet \in OptPaths :
          \E crateio \in from_cratesio(name) :
             LET r == new_full(fs, name, version, features, path_to_snippet, crateio) IN
             /\ fs' = r.fs
             /\ last' = [op |-> "new_full", name |-> name, version |-> version,
                         features |-> features, path_to_snippet |-> path_to_snippet,
                         crateio |-> crateio, res |-> r.res, fs |-> fs]
    /\ pc' = "done"
    /\ UNCHANGED <<cfg, js>>

CallNew ==
    /\ pc = "resolve"
    /\ \E name \in Names :
          \E crateio \in from_cratesio(name) :
             last' = [op |-> "new", name |-> name, version |-> None,
                      features |-> None, path_to_snippet |-> None,
                      crateio |-> crateio, res |-> new(name, crateio), fs |-> fs]
    /\ pc' = "done"
    /\ UNCHANGED <<cfg, fs, js>>

NextResolve == CallNewFull \/ CallNew

SpecResolve == InitResolve /\ [][NextResolve]_vars

\* The versions of the crates.io answer of the last call.
Fetched == Unwrap(last.crateio.val).versions

\* The version the last call resolves to, if the answer has it: the one whose
\* number is the requested string, or the first of the answer.
Resolved ==
    IF IsSome(last.version) THEN FindNum(get_all_versions(Unwrap(last.crateio.val)),
                                         Unwrap(last.version))
    ELSE IF Len(Fetched) >= 1 /\ Fetched[1].ok THEN Some(Fetched[1])
    ELSE None

FeatureSet(version) == IF IsSome(version.features) THEN Unwrap(version.features) ELSE {}

\* C2: whenever new_full is asked for a feature list with a name that is not in
\* the feature set of the resolved version (the requested one, or versions[0]
\* when none is requested), it fails with IncompatibleFeatures.
C2_UnknownFeatureRejected ==
    (/\ last.op = "new_full"
     /\ IsOk(last.crateio)
     /\ IsSome(last.features)
     /\ IsSome(Resolved)
     /\ \E f \in Range(Unwrap(last.features)) : f \notin FeatureSet(Unwrap(Resolved)))
    => last.res.err = "IncompatibleFeatures"

\* C3: when new_full is given a snippet path, every other check of the call
\* passes and a managed snippet of that name exists already, the call fails
\* with SnippetExists, returns no record and leaves the managed snippet as it was.
C3_ManagedSnippetCollision ==
    (/\ last.op = "new_full"
     /\ IsOk(last.crateio)
     /\ IsSome(last.path_to_snippet)
     /\ exists(last.fs[Unwrap(last.path_to_snippet)])
     /\ IsOk(from_file(last.fs, Unwrap(last.path_to_snippet)).res)
     /\ CheckVersion(Unwrap(last.crateio.val), last.version, last.features) = ""
     /\ IsOk(get_version(Unwrap(last.crateio.val), 0))
     /\ exists(last.fs[SnippetPath(last.name)]))
    => /\ last.res.err = "SnippetExists"
       /\ last.res.val = <<>>
       /\ fs[SnippetPath(last.name)] = last.fs[SnippetPath(last.name)]

\* C4: for an answer of crates.io whose versions[0] is a version, new returns
\* the record of that version's number, without features and without snippet.
C4_DefaultIsFirstVersion ==
    (/\ last.op = "new"
     /\ IsOk(last.crateio)
     /\ Len(Fetched) >= 1
     /\ Fetched[1].ok)
    => last.res = Ok(JsonDependency(last.name, Fetched[1].num, None, None))

C4_Witness ==
    /\ last.op = "new"
    /\ IsOk(last.res)
    /\ Len(Fetched) = 2
    /\ Fetched[2].ok
    /\ Fetched[2].num # Fetched[1].num
    /\ Unwrap(last.res.val).version = Fetched[1].num

\* C5: a new_full that succeeds with a requested version and a requested
\* feature list returns the requested name, the requested version string, which
\* is the number of one of the answer's versions, and the requested features in
\* the requested order.
C5_RecordAsRequested ==
    (/\ last.op = "new_full"
     /\ IsOk(last.res)
     /\ IsSome(last.version)
     /\ IsSome(last.features))
    => /\ Unwrap(last.res.val).name = last.name
       /\ Unwrap(last.res.val).version = Unwrap(last.version)
       /\ Unwrap(last.res.val).features = last.features
       /\ \E i \in 1..Len(Fetched) :
             Fetched[i].ok /\ Fetched[i].num = Unwrap(last.version)

C5_Witness ==
    /\ last.op = "new_full"
    /\ IsOk(last.res)
    /\ last.version = Some("2.0.0")
    /\ last.features = Some(<<"full">>)
    /\ Fetched = <<VersionValue("1.0.0", Some({"derive"})),
                   VersionValue("2.0.0", Some({"derive", "full"}))>>
    /\ Unwrap(last.res.val) = JsonDependency(last.name, "2.0.0", Some(<<"full">>), None)

--------------------------------------------------------------------------
(* A session with one JsonStorage and one store file: records are added  *)
(* and removed in memory, the storage is saved, loaded back and saved    *)
(* again.                                                                *)

StoreFeatures == {None, Some(<<"derive">>), Some(<<"full", "derive">>)}

\* The records add() is given.
Deps ==
    {JsonDependency(n, v, f, p) :
        n \in Names, v \in VersionNums, f \in StoreFeatures,
        p \in {None} \cup {Some(SnippetPath(m)) : m \in Names}}
    \ {d \in [name : Names, version : VersionNums, features : StoreFeatures,
              path_to_snippet : {Some(SnippetPath(m)) : m \in Names}] :
          d.path_to_snippet # Some(SnippetPath(d.name))}

SerdeDoc == SerJsonStorage(add(EmptyStorage, JsonDependency("serde", "1.0.0", None, None)),
                           <<"serde">>)

\* Texts that are not one JsonStorage document: cut short, written twice
\* without truncation, a record without version, a null map, a bare string.
CorruptDocs ==
    {<<LBrace>>,
     SubSeq(SerdeDoc, 1, Len(SerdeDoc) - 1),
     SerdeDoc \o SerdeDoc,
     <<LBrace, Str("dependencies"), Colon, LBrace, Str("serde"), Colon,
       LBrace, Str("name"), Colon, Str("serde"), RBrace, RBrace, RBrace>>,
     <<LBrace, Str("dependencies"), Colon, Null, RBrace>>,
     <<Str("serde")>>}

\* Texts written by hand that do deserialize: an empty object, and a document
\* with a field the tool does not know, a record without its optional fields
\* and a record stored under another key than its name.
HandDocs ==
    {<<LBrace, RBrace>>,
     <<LBrace, Str("comment"), Colon, LBracket, Str("x"), Comma, LBrace, RBrace, RBracket, Comma,
       Str("dependencies"), Colon, LBrace,
       Str("serde"), Colon, LBrace, Str("version"), Colon, Str("1.0.0"), Comma,
                                    Str("name"), Colon, Str("serde"), RBrace, Comma,
       Str("tokio"), Colon, LBrace, Str("name"), Colon, Str("serde"), Comma,
                                    Str("version"), Colon, Str("2.0.0"), Comma,
                                    Str("features"), Colon, LBracket, RBracket, RBrace,
       RBrace, RBrace>>}

StoreFiles ==
    {Absent, Dir, File(<<>>)} \cup {File(d) : d \in CorruptDocs \cup HandDocs}

NoOp ==
    [op |-> "none", res |-> Err("none"), dep |-> JsonDependency("", "", None, None),
     name |-> "", store |-> EmptyStorage, pre |-> Absent, first |-> <<>>]

InitStore ==
    /\ cfg \in StoreFiles
    /\ fs = [p \in Paths |-> Absent]
    /\ js = EmptyStorage
    /\ pc = "mem"
    /\ last = NoOp

\* js.add(dep): returns ().
StoreAdd ==
    /\ pc = "mem"
    /\ \E dep \in Deps :
          /\ js' = add(js, dep)
          /\ last' = [NoOp EXCEPT !.op = "add", !.res = Ok("unit"), !.dep = dep,
                                  !.store = js]
    /\ UNCHANGED <<cfg, fs, pc>>

\* js.remove(name): returns ().
StoreRemove ==
    /\ pc = "mem"
    /\ \E name \in Names :
          /\ js' = remove(js, name)
          /\ last' = [NoOp EXCEPT !.op = "remove", !.res = Ok("unit"), !.name = name,
                                  !.store = js]
    /\ UNCHANGED <<cfg, fs, pc>>

\* js.save(path)
StoreSave ==
    /\ pc \in {"mem", "loaded"}
    /\ \E order \in Orders(js) :
          LET r == save(cfg, js, order) IN
          /\ cfg' = r.cfg
          /\ pc' = IF ~IsOk(r.res) THEN pc ELSE IF pc = "mem" THEN "saved" ELSE "resaved"
          /\ last' = [NoOp EXCEPT !.op = "save", !.res = r.res, !.store = js,
                                  !.first = IF pc = "loaded" THEN last.first
                                            ELSE IF IsOk(r.res) THEN r.cfg.data ELSE <<>>]
    /\ UNCHANGED <<fs, js>>

\* js = JsonStorage::load(path)?
StoreLoad ==
    /\ pc \in {"mem", "saved"}
    /\ LET r == load(cfg) IN
          /\ cfg' = r.cfg
          /\ js' = IF IsOk(r.res) THEN Unwrap(r.res.val) ELSE js
          /\ pc' = IF pc = "saved" THEN "loaded" ELSE pc
          /\ last' = [NoOp EXCEPT !.op = "load", !.res = r.res, !.pre = cfg,
                                  !.store = js, !.first = last.first]
    /\ UNCHANGED fs

NextStore == StoreAdd \/ StoreRemove \/ StoreSave \/ StoreLoad

SpecStore == InitStore /\ [][NextStore]_vars

\* A store file that is absent, empty or not a JsonStorage document.
Unreadable(file) ==
    \/ file = Absent
    \/ file = File(<<>>)
    \/ file.kind = "file" /\ file.data \in CorruptDocs

\* C6 (as stated): load never returns an error, and returns the empty storage
\* for a file that is absent, empty or does not deserialize.
C6_LoadNeverFails ==
    last.op = "load"
    => /\ IsOk(last.res)
       /\ Unreadable(last.pre) => last.res = Ok(EmptyStorage)

\* C6 (amended): load returns an error exactly when the path cannot be opened as
\* a file; for a file that is absent (it is created), empty or does not
\* deserialize, it returns the empty storage.
C6_LoadFailsOnlyOnOpen ==
    last.op = "load"
    => /\ IsOk(last.res) <=> last.pre.kind # "dir"
       /\ ~IsOk(last.res) => last.res.err = "IOError" /\ cfg = last.pre
       /\ Unreadable(last.pre) => last.res = Ok(EmptyStorage) /\ cfg.kind = "file"

C6_Witness ==
    /\ last.op = "load"
    /\ last.pre = File(SerdeDoc \o SerdeDoc)
    /\ last.res = Ok(EmptyStorage)
    /\ js = EmptyStorage

\* C7: a storage saved and then loaded from the same path is read back with
\* the same names and, under each name, the same record.
C7_RecordsRoundTrip ==
    pc = "loaded"
    => /\ IsOk(last.res)
       /\ Keys(js) = Keys(last.store)
       /\ \A k \in Keys(last.store) : js[k] = last.store[k]

C7_Witness ==
    /\ pc = "loaded"
    /\ js["serde"] = Some(JsonDependency("serde", "1.0.0", Some(<<"derive">>), None))
    /\ js["tokio"] = Some(JsonDependency("tokio", "2.0.0", Some(<<"full", "derive">>),
                                         Some(SnippetPath("tokio"))))

\* C8: saving a storage, loading the file and saving what was loaded writes the
\* same text as the first save.
C8_SameTextAfterRoundTrip == pc = "resaved" => cfg.data = last.first

C10_AddExistingFails ==
    (last.op = "add" /\ IsSome(last.store[last.dep.name]))
    => /\ ~IsOk(last.res)
       /\ js[last.dep.name] = last.store[last.dep.name]

--------------------------------------------------------------------------
(* Runs of the command line: MaxCommands commands, one after the other,  *)
(* over the store file and the files of the user.                        *)

MaxCommands == 2

CmdVersions == {None, Some("1.0.0"), Some("9.9.9")}
CmdFeatures == {None, Some(<<"full">>)}
CmdPaths == {None, Some("snip.txt"), Some("gone.txt")}

\* What crates.io answers in these runs.
Catalogue(name) ==
    IF name = "serde"
    THEN {Ok([crate_info |-> "serde",
              versions |-> <<VersionValue("2.0.0", Some({"derive", "full"})),
                             VersionValue("1.0.0", Some({"derive"}))>>]),
          Ok([crate_info |-> "serde",
              versions |-> <<VersionValue("1.0.0", Some({"derive"}))>>]),
          Err("ParserError")}
    ELSE {Ok([crate_info |-> name, versions |-> <<VersionValue("1.0.0", None)>>]),
          Err("HttpError")}

\* A store file with a record of serde and a record of tokio.
TwoDoc ==
    SerJsonStorage(add(add(EmptyStorage, JsonDependency("serde", "1.0.0", Some(<<"derive">>), None)),
                       JsonDependency("tokio", "1.0.0", None, None)),
                   <<"tokio", "serde">>)

CmdStoreFiles == {Absent, Dir, File(SerdeDoc), File(TwoDoc)}

\* What from_cratesio answers for each name during one command.
Fetches == {f \in [Names -> UNION {Catalogue(n) : n \in Names}] :
               \A n \in Names : f[n] \in Catalogue(n)}

CmdFiles ==
    [p \in Paths |->
        CASE p = "snip.txt" -> File(<<UseLine, CodeLine>>)
          [] p \in {"snip.rs", "snip"} -> File(<<CodeLine>>)
          [] OTHER -> Absent]

NoCmd ==
    [n |-> 0, op |-> "none", name |-> "", version |-> None, features |-> None,
     path_to_snippet |-> None, crateio |-> Err("HttpError"), res |-> Err("none"),
     cfg |-> Absent, fs |-> CmdFiles,
     fetch |-> [k \in Names |-> Err("HttpError")], perm |-> <<>>]

\* What `limp new serde -p snip.txt` leaves of an empty store: the record with
\* its snippet, and the snippet in the managed directory.
LinkedDoc ==
    SerJsonStorage(add(EmptyStorage, JsonDependency("serde", "2.0.0", None,
                                                    Some(SnippetPath("serde")))),
                   <<"serde">>)
LinkedFiles == [CmdFiles EXCEPT ![SnippetPath("serde")] = File(<<UseLine, CodeLine>>)]

Init ==
    /\ \/ cfg \in CmdStoreFiles /\ fs = CmdFiles
       \/ cfg = File(LinkedDoc) /\ fs = LinkedFiles
    /\ js = EmptyStorage
    /\ pc = "cli"
    /\ last = NoCmd

\* The orders in which save can find the map of a command that went as r: the
\* map is iterated only when the command gets to save, and the order shows
\* only when it holds more than one record.
FirstOrder == CHOOSE o \in KeyOrders : TRUE
SaveOrders(r) ==
    IF IsOk(r.res) /\ Cardinality(Keys(r.js)) > 1 THEN KeyOrders ELSE {FirstOrder}

\* limp new NAME [-v VERSION] [-f FEATURES] [-p PATH]: NewDependency(cfg, fs, ..),
\* its load of the store file worked out once for all arguments.
CmdNew ==
    /\ last.n < MaxCommands
    /\ \E loaded \in {load(cfg)} :
       \E name \in Names, version \in CmdVersions, features \in CmdFeatures,
          path_to_snippet \in CmdPaths :
          \E crateio \in Catalogue(name) :
             \E r0 \in {NewDependencyLoaded(loaded, fs, name, version, features,
                                            path_to_snippet, crateio, FirstOrder)} :
                \E perm \in SaveOrders(r0) :
                   \E r \in {IF perm = FirstOrder THEN r0
                              ELSE NewDependencyLoaded(loaded, fs, name, version, features,
                                                       path_to_snippet, crateio, perm)} :
                      /\ cfg' = r.cfg
                      /\ fs' = r.fs
                      /\ js' = r.js
                      /\ last' = [NoCmd EXCEPT !.n = last.n + 1, !.op = "new", !.name = name,
                                               !.version = version, !.features = features,
                                               !.path_to_snippet = path_to_snippet,
                                               !.crateio = crateio, !.res = r.res,
                                               !.cfg = cfg, !.fs = fs]
    /\ UNCHANGED pc

\* limp del NAME: Delete(cfg, fs, name, perm)
CmdDelete ==
    /\ last.n < MaxCommands
    /\ \E loaded \in {load(cfg)} :
       \E name \in Names, perm \in KeyOrders :
          \E r \in {DeleteLoaded(loaded, fs, name, perm)} :
             /\ cfg' = r.cfg
             /\ fs' = r.fs
             /\ js' = r.js
             /\ last' = [NoCmd EXCEPT !.n = last.n + 1, !.op = "del", !.name = name,
                                      !.res = r.res, !.cfg = cfg, !.fs = fs]
    /\ UNCHANGED pc

\* limp update: Update(cfg, fs, fetch, perm)
CmdUpdate ==
    /\ last.n < MaxCommands
    /\ \E loaded \in {load(cfg)} :
       \E fetch \in Fetches, perm \in KeyOrders :
          \E r \in {UpdateLoaded(loaded, fs, fetch, perm)} :
             /\ cfg' = r.cfg
             /\ fs' = r.fs
             /\ js' = r.js
             /\ last' = [NoCmd EXCEPT !.n = last.n + 1, !.op = "update", !.res = r.res,
                                      !.cfg = cfg, !.fs = fs, !.fetch = fetch,
                                      !.perm = perm]
    /\ UNCHANGED pc

LinkPaths == {"snip.txt", "gone.txt", "snip.rs"}

\* limp link NAME PATH: Link(cfg, fs, name, path_to_snippet, perm)
CmdLink ==
    /\ last.n < MaxCommands
    /\ \E loaded \in {load(cfg)} :
       \E name \in Names, path_to_snippet \in LinkPaths, perm \in KeyOrders :
          \E r \in {LinkLoaded(loaded, fs, name, path_to_snippet, perm)} :
             /\ cfg' = r.cfg
             /\ fs' = r.fs
             /\ js' = r.js
             /\ last' = [NoCmd EXCEPT !.n = last.n + 1, !.op = "link", !.name = name,
                                      !.path_to_snippet = Some(path_to_snippet),
                                      !.res = r.res, !.cfg = cfg, !.fs = fs]
    /\ UNCHANGED pc

\* limp unlink NAME: Unlink(cfg, fs, name, perm)
CmdUnlink ==
    /\ last.n < MaxCommands
    /\ \E loaded \in {load(cfg)} :
       \E name \in Names, perm \in KeyOrders :
          \E r \in {UnlinkLoaded(loaded, fs, name, perm)} :
             /\ cfg' = r.cfg
             /\ fs' = r.fs
             /\ js' = r.js
             /\ last' = [NoCmd EXCEPT !.n = last.n + 1, !.op = "unlink", !.name = name,
                                      !.res = r.res, !.cfg = cfg, !.fs = fs]
    /\ UNCHANGED pc

Next == CmdNew \/ CmdDelete \/ CmdUpdate \/ CmdLink \/ CmdUnlink

Spec == Init /\ [][Next]_vars

\* C1: when the requested version string is the number of no version of the
\* crates.io answer, the `new` command, once it has its store and the answer,
\* fails with VersionNotFound, and the store read from the store file is the
\* one that was read before.
C1_UnknownVersionRejected ==
    (/\ last.op = "new"
     /\ IsOk(load(last.cfg).res)
     /\ IsOk(last.crateio)
     /\ IsSome(last.version)
     /\ \A i \in 1..Len(Fetched) :
           Fetched[i].ok => Fetched[i].num # Unwrap(last.version))
    => /\ last.res.err = "VersionNotFound"
       /\ load(cfg).res = load(last.cfg).res

\* What a load of the store file returns.
Persisted(file) == load(file).res

\* C11: the `del` command for a name that is not in the store it loads
\* succeeds; its remove leaves the loaded storage as it was, and the store file
\* holds the same records after the command as before.
C11_DeleteAbsentIsNoOp ==
    (/\ last.op = "del"
     /\ IsOk(Persisted(last.cfg))
     /\ ~IsSome(Unwrap(Persisted(last.cfg).val)[last.name]))
    => /\ last.res = Ok("unit")
       /\ js = Unwrap(Persisted(last.cfg).val)
       /\ Persisted(cfg) = Persisted(last.cfg)

C11_Witness ==
    /\ last.op = "del"
    /\ last.name = "tokio"
    /\ IsOk(Persisted(last.cfg))
    /\ IsSome(Unwrap(Persisted(last.cfg).val)["serde"])
    /\ ~IsSome(Unwrap(Persisted(last.cfg).val)["tokio"])
    /\ last.res = Ok("unit")
    /\ Persisted(cfg) = Persisted(last.cfg)

\* The storage the last command loaded, and the order in which its map
\* handed out the records.
Stored == Unwrap(Persisted(last.cfg).val)
Visited == Iteration(Stored, last.perm)

\* What from_cratesio answered for the record under key k, whether the
\* refresh of that record fails on it, and with which error.
Answer(k) == last.fetch[Unwrap(Stored[k]).name]
Fails(k) == ~IsOk(Answer(k)) \/ ~IsOk(get_version(Unwrap(Answer(k).val), 0))
FailsWith(k) ==
    IF ~IsOk(Answer(k)) THEN Answer(k).err ELSE get_version(Unwrap(Answer(k).val), 0).err
Latest(k) == Unwrap(Answer(k).val).versions[1].num

FirstFailure ==
    CHOOSE i \in 1..Len(Visited) :
        Fails(Visited[i]) /\ \A j \in 1..(i - 1) : ~Fails(Visited[j])

\* C12: when the refresh of a record fails during `update`, the command
\* returns the error of the first record that fails, the records before it are
\* refreshed in memory only, that record and the ones after it are left as
\* loaded, and the store file keeps the content it had.
C12_UpdateStopsAtFirstError ==
    (/\ last.op = "update"
     /\ IsOk(Persisted(last.cfg))
     /\ \E i \in 1..Len(Visited) : Fails(Visited[i]))
    => /\ last.res = Err(FailsWith(Visited[FirstFailure]))
       /\ \A j \in 1..(FirstFailure - 1) :
             js[Visited[j]] = Some([Unwrap(Stored[Visited[j]]) EXCEPT
                                      !.version = Latest(Visited[j])])
       /\ \A j \in FirstFailure..Len(Visited) : js[Visited[j]] = Stored[Visited[j]]
       /\ Keys(js) = Keys(Stored)
       /\ cfg = last.cfg

C12_Witness ==
    /\ last.op = "update"
    /\ last.cfg = File(TwoDoc)
    /\ Visited = <<"serde", "tokio">>
    /\ last.res = Err("HttpError")
    /\ Unwrap(js["serde"]).version = "2.0.0"
    /\ Unwrap(Stored["serde"]).version = "1.0.0"
    /\ cfg = File(TwoDoc)

\* C13: an `update` that succeeds gives every record the number of
\* versions[0] of the answer fetched for it and changes nothing else: the
\* names stored, and the name, features and snippet path of every record, are
\* as loaded, whether or not the new version has the features; the store
\* file holds these records.
C13_UpdateSetsVersionOnly ==
    (last.op = "update" /\ IsOk(last.res))
    => /\ IsOk(Persisted(last.cfg))
       /\ Keys(js) = Keys(Stored)
       /\ \A k \in Keys(Stored) :
             js[k] = Some([Unwrap(Stored[k]) EXCEPT !.version = Latest(k)])
       /\ Persisted(cfg) = Ok(js)

C13_Witness ==
    /\ last.op = "update"
    /\ IsOk(last.res)
    /\ Stored["serde"] = Some(JsonDependency("serde", "2.0.0", Some(<<"full">>), None))
    /\ js["serde"] = Some(JsonDependency("serde", "1.0.0", Some(<<"full">>), None))
    /\ "full" \notin FeatureSet(Unwrap(last.fetch["serde"].val).versions[1])
    /\ Persisted(cfg) = Ok(js)

--------------------------------------------------------------------------
(* Two invocations of the tool at once on one store file. Each loads the *)
(* file, adds its record, and saves: files::open, set_len(0), and        *)
(* serde_json::to_writer, which hands the document to the file piece by  *)
(* piece; the file is open in append mode, so each piece lands at the    *)
(* end of the file as it is then.                                        *)

Procs == {"p1", "p2"}

\* The record each invocation adds.
RaceDep(p) ==
    IF p = "p1" THEN JsonDependency("serde", "2.0.0", None, None)
    ELSE JsonDependency("tokio", "1.0.0", None, None)

\* The writes of to_writer for one document: the opening of the map, its
\* entries, the closing.
Writes(doc) ==
    SelectSeq(<<SubSeq(doc, 1, 4), SubSeq(doc, 5, Len(doc) - 2),
                SubSeq(doc, Len(doc) - 1, Len(doc))>>,
              LAMBDA w : w # <<>>)

RaceFiles == {Absent, File(SerdeDoc), File(TwoDoc)}

NoRace ==
    [doc |-> [p \in Procs |-> <<>>], pending |-> [p \in Procs |-> <<>>],
     res |-> [p \in Procs |-> Err("none")], finished |-> <<>>]

InitRace ==
    /\ cfg \in RaceFiles
    /\ fs = [p \in Paths |-> Absent]
    /\ js = [p \in Procs |-> EmptyStorage]
    /\ pc = [p \in Procs |-> "start"]
    /\ last = NoRace

\* JsonStorage::load, then js.add(jd).
RaceLoad(p) ==
    /\ pc[p] = "start"
    /\ \E loaded \in {load(cfg)} :
          /\ cfg' = loaded.cfg
          /\ IF IsOk(loaded.res)
             THEN /\ js' = [js EXCEPT ![p] = add(Unwrap(loaded.res.val), RaceDep(p))]
                  /\ pc' = [pc EXCEPT ![p] = "loaded"]
                  /\ last' = last
             ELSE /\ js' = js
                  /\ pc' = [pc EXCEPT ![p] = "done"]
                  /\ last' = [last EXCEPT !.res[p] = Err(loaded.res.err),
                                          !.finished = Append(@, p)]
    /\ UNCHANGED fs

\* JsonStorage::save up to the write: files::open and file.set_len(0).
RaceTruncate(p) ==
    /\ pc[p] = "loaded"
    /\ \E opened \in {open(cfg)}, order \in Orders(js[p]) :
          IF IsOk(opened)
          THEN /\ cfg' = File(<<>>)
               /\ pc' = [pc EXCEPT ![p] = "writing"]
               /\ last' = [last EXCEPT !.doc[p] = SerJsonStorage(js[p], order),
                                       !.pending[p] = Writes(SerJsonStorage(js[p], order))]
          ELSE /\ cfg' = cfg
               /\ pc' = [pc EXCEPT ![p] = "done"]
               /\ last' = [last EXCEPT !.res[p] = Err(opened.err),
                                       !.finished = Append(@, p)]
    /\ UNCHANGED <<fs, js>>

\* One write of to_writer: O_APPEND puts it at the end of the file.
RaceWrite(p) ==
    /\ pc[p] = "writing"
    /\ cfg' = File(cfg.data \o Head(last.pending[p]))
    /\ IF Len(last.pending[p]) = 1
       THEN /\ pc' = [pc EXCEPT ![p] = "done"]
            /\ last' = [last EXCEPT !.pending[p] = <<>>, !.res[p] = Ok("unit"),
                                    !.finished = Append(@, p)]
       ELSE /\ pc' = pc
            /\ last' = [last EXCEPT !.pending[p] = Tail(@)]
    /\ UNCHANGED <<fs, js>>

NextRace == \E p \in Procs : RaceLoad(p) \/ RaceTruncate(p) \/ RaceWrite(p)

SpecRace == InitRace /\ [][NextRace]_vars

--------------------------------------------------------------------------
(* Display of one record.                                                *)

DisplayDeps ==
    {JsonDependency(name, version, features, path_to_snippet) :
        name \in Names, version \in ReqVersions, features \in OptFeatures,
        path_to_snippet \in {None} \cup {Some(SnippetPath(n)) : n \in Names}}

NoText == [op |-> "none", dep |-> JsonDependency("", "", None, None), text |-> ""]

InitDisplay ==
    /\ cfg = Absent
    /\ fs = [p \in Paths |-> Absent]
    /\ js = EmptyStorage
    /\ pc = "display"
    /\ last = NoText

\* dep.to_string()
CallDisplay ==
    /\ pc = "display"
    /\ \E dep \in DisplayDeps :
          last' = [op |-> "display", dep |-> dep, text |-> Display(dep)]
    /\ pc' = "done"
    /\ UNCHANGED <<cfg, fs, js>>

NextDisplay == CallDisplay

SpecDisplay == InitDisplay /\ [][NextDisplay]_vars

\* "f1", "f2", ..: each name in double quotes, a comma and a space between.
RECURSIVE Listed(_)
Listed(names) ==
    CASE Len(names) = 0 -> ""
      [] Len(names) = 1 -> "\"" \o names[1] \o "\""
      [] OTHER -> "\"" \o names[1] \o "\", " \o Listed(Tail(names))

\* C18 (as stated): a record without features is rendered name = "version",
\* a record with features name = { version = "version", features = ["f1", "f2"] },
\* with a space after the opening and before the closing brace.
C18_DisplaySpacedBraces ==
    last.op = "display"
    => last.text =
         IF IsSome(last.dep.features)
         THEN last.dep.name \o " = { version = \"" \o last.dep.version
              \o "\", features = [" \o Listed(Unwrap(last.dep.features)) \o "] }"
         ELSE last.dep.name \o " = \"" \o last.dep.version \o "\""

\* C18 (amended): a record without features is rendered name = "version",
\* a record with features name = {version = "version", features = ["f1", "f2"]},
\* the braces tight around what they hold; the snippet path is not rendered.
C18_DisplayForms ==
    last.op = "display"
    => last.text =
         IF IsSome(last.dep.features)
         THEN last.dep.name \o " = {version = \"" \o last.dep.version
              \o "\", features = [" \o Listed(Unwrap(last.dep.features)) \o "]}"
         ELSE last.dep.name \o " = \"" \o last.dep.version \o "\""

C18_Witness ==
    /\ last.op = "display"
    /\ last.dep = JsonDependency("tokio", "2.0.0", None, Some(SnippetPath("tokio")))
    /\ last.text = "tokio = \"2.0.0\""

\* C19: a record with features f1, .., fn is rendered
\* name = {version = "V", features = ["f1", .., "fn"]}, nothing between a
\* brace and what it holds; serde 1.0.0 with derive is rendered
\* serde = {version = "1.0.0", features = ["derive"]}.
C19_DisplayTightBraces ==
    (last.op = "display" /\ IsSome(last.dep.features))
    => /\ last.text = last.dep.name \o " = {version = \"" \o last.dep.version
                      \o "\", features = [" \o Listed(Unwrap(last.dep.features)) \o "]}"
       /\ (last.dep.name = "serde" /\ last.dep.version = "1.0.0"
             /\ last.dep.features = Some(<<"derive">>))
          => last.text = "serde = {version = \"1.0.0\", features = [\"derive\"]}"

C19_Witness ==
    /\ last.op = "display"
    /\ last.dep = JsonDependency("serde", "1.0.0", Some(<<"derive", "full">>), None)
    /\ last.text = "serde = {version = \"1.0.0\", features = [\"derive\", \"full\"]}"

\* The number of members named `key` in the objects of a document.
Members(doc, key) ==
    Cardinality({i \in 1..(Len(doc) - 1) : doc[i] = Str(key) /\ doc[i + 1] = Colon})

\* C20: in the document save writes, a record without features has no
\* features member and a record without snippet path has no path_to_snippet
\* member; no member is written as null.
C20_UnsetFieldsAbsent ==
    (last.op = "save" /\ IsOk(last.res))
    => /\ \A i \in 1..Len(cfg.data) : cfg.data[i] # Null
       /\ Members(cfg.data, "features")
            = Cardinality({k \in Keys(js) : IsSome(Unwrap(js[k]).features)})
       /\ Members(cfg.data, "path_to_snippet")
            = Cardinality({k \in Keys(js) : IsSome(Unwrap(js[k]).path_to_snippet)})

\* C16: every record of the store file that has a snippet path has the path
\* of the managed snippet of its name, and that file exists.
C16_LinkedSnippetExists ==
    \A persisted \in {Persisted(cfg)} :
       IsOk(persisted)
       => \A k \in Keys(Unwrap(persisted.val)) :
             \A dep \in {Unwrap(Unwrap(persisted.val)[k])} :
                IsSome(dep.path_to_snippet)
                => /\ dep.path_to_snippet = Some(SnippetPath(dep.name))
                   /\ exists(fs[SnippetPath(dep.name)])

C16_Witness ==
    /\ last.op = "link"
    /\ last.name = "tokio"
    /\ last.res = Ok("unit")
    /\ ~IsSome(Unwrap(Stored["tokio"]).path_to_snippet)
    /\ Unwrap(Persisted(cfg).val)["tokio"]
         = Some([Unwrap(Stored["tokio"]) EXCEPT !.path_to_snippet = Some(SnippetPath("tokio"))])
    /\ exists(fs[SnippetPath("tokio")])
    /\ ~exists(last.fs[SnippetPath("tokio")])

\* C17: when `new` (its answer from crates.io fetched) or `link` is given a
\* snippet path that names no existing file, the command fails with
\* SnippetNotFound, no file comes into being at that path, and the records of
\* the store file are as they were.
C17_MissingSnippetRejected ==
    (/\ last.op \in {"new", "link"}
     /\ IsOk(Persisted(last.cfg))
     /\ last.op = "new" => IsOk(last.crateio)
     /\ IsSome(last.path_to_snippet)
     /\ ~exists(last.fs[Unwrap(last.path_to_snippet)]))
    => /\ last.res = Err("SnippetNotFound")
       /\ ~exists(fs[Unwrap(last.path_to_snippet)])
       /\ Persisted(cfg) = Persisted(last.cfg)

--------------------------------------------------------------------------
(* Action::Add: the line of a record written to the Cargo.toml found     *)
(* from the working directory. A manifest is its text, a string; fs is   *)
(* what Cargo.toml names in each directory find_toml visits, the working *)
(* directory first.                                                      *)

\* files::find_toml: the first directory, from the working directory up,
\* whose Cargo.toml exists.
RECURSIVE find_toml_from(_, _)
find_toml_from(tomls, i) ==
    IF i > Len(tomls) THEN None
    ELSE IF exists(tomls[i]) THEN Some(i)
    ELSE find_toml_from(tomls, i + 1)
find_toml(tomls) == find_toml_from(tomls, 1)

\* str::contains
Contains(str, pat) ==
    \E i \in 1..(Len(str) - Len(pat) + 1) : SubSeq(str, i, i + Len(pat) - 1) = pat

\* The writeln! calls of Action::Add through a handle opened with append(true):
\* every write lands at the end of the file.
AddWritten(content, deps) ==
    IF Contains(content, "[dependencies]")
    THEN content \o deps \o "\n"
    ELSE content \o "\n[dependencies]\n" \o deps \o "\n"

\* The line of the record: the one in the store, or a new one from crates.io.
AddLine(storage, name, crateio) ==
    IF IsSome(get(storage, name)) THEN Ok(Display(Unwrap(get(storage, name))))
    ELSE IF ~IsOk(new(name, crateio)) THEN Err(new(name, crateio).err)
    ELSE Ok(Display(Unwrap(new(name, crateio).val)))

\* Action::Add, once the manifest is open at tomls[i] and the store loaded.
\* [res, cfg, fs, line].
AddLoaded(loaded, tomls, i, name, crateio) ==
    IF ~IsOk(loaded.res)
    THEN [res |-> Err(loaded.res.err), cfg |-> loaded.cfg, fs |-> tomls, line |-> ""]
    ELSE LET deps == AddLine(Unwrap(loaded.res.val), name, crateio) IN
         IF ~IsOk(deps)
         THEN [res |-> Err(deps.err), cfg |-> loaded.cfg, fs |-> tomls, line |-> ""]
         ELSE [res |-> Ok("unit"), cfg |-> loaded.cfg,
               fs |-> [tomls EXCEPT ![i] = File(AddWritten(tomls[i].data, Unwrap(deps.val)))],
               line |-> Unwrap(deps.val)]

\* Action::Add
Add(file, tomls, name, crateio) ==
    IF ~IsSome(find_toml(tomls))
    THEN [res |-> Err("CargoTomlNotFound"), cfg |-> file, fs |-> tomls, line |-> ""]
    ELSE IF ~IsOk(open(tomls[Unwrap(find_toml(tomls))]))
    THEN [res |-> Err(open(tomls[Unwrap(find_toml(tomls))]).err),
          cfg |-> file, fs |-> tomls, line |-> ""]
    ELSE AddLoaded(load(file), tomls, Unwrap(find_toml(tomls)), name, crateio)

PackageToml == "[package]\n"
DepsToml == "[package]\n\n[dependencies]\n"
DevDepsToml == "[dependencies]\n\n[dev-dependencies]\n"
OpenEndedToml == "[dependencies]"
CommentToml == "# no [dependencies] yet\n"

Manifests ==
    {Absent, Dir, File(PackageToml), File(DepsToml), File(DevDepsToml),
     File(OpenEndedToml), File(CommentToml)}

NoAdd ==
    [n |-> 0, op |-> "none", name |-> "", crateio |-> Err("HttpError"),
     res |-> Err("none"), line |-> "", cfg |-> Absent, fs |-> <<Absent, Absent>>]

InitManifest ==
    /\ cfg \in CmdStoreFiles
    /\ fs \in {<<here, up>> : here \in Manifests, up \in {Absent, File(DepsToml)}}
    /\ js = EmptyStorage
    /\ pc = "cli"
    /\ last = NoAdd

\* limp add NAME
CmdAdd ==
    /\ last.n < MaxCommands
    /\ \E name \in Names :
       \E crateio \in Catalogue(name) :
          \E r \in {Add(cfg, fs, name, crateio)} :
             /\ cfg' = r.cfg
             /\ fs' = r.fs
             /\ last' = [n |-> last.n + 1, op |-> "add", name |-> name,
                         crateio |-> crateio, res |-> r.res, line |-> r.line,
                         cfg |-> cfg, fs |-> fs]
    /\ UNCHANGED <<js, pc>>

NextManifest == CmdAdd

SpecManifest == InitManifest /\ [][NextManifest]_vars

\* The lines of a text from position i on, cur the line under way.
RECURSIVE LinesFrom(_, _, _)
LinesFrom(str, i, cur) ==
    IF i > Len(str) THEN (IF cur = "" THEN <<>> ELSE <<cur>>)
    ELSE IF SubSeq(str, i, i) = "\n" THEN <<cur>> \o LinesFrom(str, i + 1, "")
    ELSE LinesFrom(str, i + 1, cur \o SubSeq(str, i, i))

\* A TOML table header: a line that opens with a bracket.
IsHeader(line) == Len(line) > 0 /\ SubSeq(line, 1, 1) = "["

\* How many lines of a manifest are `line` inside its [dependencies] section:
\* after a [dependencies] header with no other header in between.
InDependencies(text, line) ==
    LET lines == LinesFrom(text, 1, "") IN
    Cardinality({l \in 1..Len(lines) :
                    /\ lines[l] = line
                    /\ \E h \in 1..(l - 1) :
                          /\ lines[h] = "[dependencies]"
                          /\ \A j \in (h + 1)..l : ~IsHeader(lines[j])})

\* The manifest `add` found, before and after the command ran.
TomlBefore == last.fs[Unwrap(find_toml(last.fs))].data
TomlAfter == fs[Unwrap(find_toml(last.fs))].data

Managed(files) == [n \in Names |-> files[SnippetPath(n)]]

\* C24: `link` for a name that has no record in the store it loads fails with
\* DependencyNotFound, and the records of the store file and the managed
\* snippet files are the same after the command as before.
C24_LinkUnknownChangesNothing ==
    (/\ last.op = "link"
     /\ IsOk(Persisted(last.cfg))
     /\ ~IsSome(Stored[last.name]))
    => /\ last.res = Err("DependencyNotFound")
       /\ Persisted(cfg) = Persisted(last.cfg)
       /\ Managed(fs) = Managed(last.fs)

\* C26: when new_full returns an error after crates.io has answered, the
\* managed snippet files are the ones there were before the call.
C26_FailedResolveCopiesNothing ==
    (last.op = "new_full" /\ IsOk(last.crateio) /\ ~IsOk(last.res))
    => Managed(fs) = Managed(last.fs)

\* A managed snippet file exists only for a name whose record in the store
\* file has it as its snippet path.
NoOrphans(file, files) ==
    \A persisted \in {Persisted(file)} :
       \A n \in Names :
          exists(files[SnippetPath(n)])
          => /\ IsOk(persisted)
             /\ IsSome(Unwrap(persisted.val)[n])
             /\ Unwrap(Unwrap(persisted.val)[n]).path_to_snippet = Some(SnippetPath(n))

\* C27: a new, del, link or unlink command that succeeds on a store and a
\* managed snippet directory without orphan snippets leaves them without
\* orphan snippets.
C27_NoOrphanSnippets ==
    (/\ last.op \in {"new", "del", "link", "unlink"}
     /\ IsOk(last.res)
     /\ NoOrphans(last.cfg, last.fs))
    => NoOrphans(cfg, fs)

\* C29: a new, del, link or unlink command on a name that succeeds against a
\* store file that deserializes leaves the record stored under every other
\* name as it was, present or not.
C29_OtherRecordsUntouched ==
    (/\ last.op \in {"new", "del", "link", "unlink"}
     /\ IsOk(last.res)
     /\ last.cfg.kind = "file"
     /\ IsOk(from_reader(last.cfg.data)))
    => /\ IsOk(Persisted(cfg))
       /\ \A k \in Names \ {last.name} :
             Unwrap(Persisted(cfg).val)[k] = Stored[k]

C29_Witness ==
    /\ last.op = "link"
    /\ last.name = "tokio"
    /\ IsOk(last.res)
    /\ last.cfg = File(TwoDoc)
    /\ Unwrap(Persisted(cfg).val)["tokio"] # Stored["tokio"]
    /\ Unwrap(Persisted(cfg).val)["serde"]
         = Some(JsonDependency("serde", "1.0.0", Some(<<"derive">>), None))

--------------------------------------------------------------------------
(* CommandHandler::parse, the --version argument of `new`: the string is *)
(* split at its dots and completed to three components by the number of  *)
(* pieces.                                                               *)

MaxVersionLen == 7

VersionChars == {"1", "x", "."}

\* The strings made of the characters of chars, in order.
RECURSIVE Concat(_)
Concat(chars) == IF chars = <<>> THEN "" ELSE Head(chars) \o Concat(Tail(chars))

\* What the user can give as --version.
VersionArgs == {Concat(s) : s \in SeqsUpTo(VersionChars, MaxVersionLen)}

\* str::split("."): the pieces of str between dots, from position i on, cur
\* the piece under way. A string without dots is one piece, the empty string
\* too.
RECURSIVE SplitFrom(_, _, _)
SplitFrom(str, i, cur) ==
    IF i > Len(str) THEN <<cur>>
    ELSE IF SubSeq(str, i, i) = "." THEN <<cur>> \o SplitFrom(str, i + 1, "")
    ELSE SplitFrom(str, i + 1, cur \o SubSeq(str, i, i))
Split(str) == SplitFrom(str, 1, "")

\* The closure given to .map() on the version argument: [panicked, version].
\* Each piece is parsed as u16 with unwrap_or_default, so every piece counts,
\* a number or not.
NormalizeVersion(v) ==
    CASE Len(Split(v)) = 3 -> [panicked |-> FALSE, version |-> v]
      [] Len(Split(v)) = 2 -> [panicked |-> FALSE, version |-> v \o ".0"]
      [] Len(Split(v)) = 1 -> [panicked |-> FALSE, version |-> v \o ".0.0"]
      [] OTHER -> [panicked |-> TRUE, version |-> ""]

InitParse ==
    /\ cfg = Absent
    /\ fs = [p \in Paths |-> Absent]
    /\ js = EmptyStorage
    /\ pc = "parse"
    /\ last = [op |-> "none", arg |-> "", panicked |-> FALSE, version |-> ""]

\* CommandHandler::parse on `limp new NAME --version ARG`
CallParse ==
    /\ pc = "parse"
    /\ \E arg \in VersionArgs :
          last' = [op |-> "parse", arg |-> arg,
                   panicked |-> NormalizeVersion(arg).panicked,
                   version |-> NormalizeVersion(arg).version]
    /\ pc' = "done"
    /\ UNCHANGED <<cfg, fs, js>>

NextParse == CallParse

SpecParse == InitParse /\ [][NextParse]_vars

\* C21: for every --version string, parse does not reach unreachable!() and
\* the version it produces has three dot-separated components: the argument
\* itself when it has three, with .0 appended when it has two, with .0.0
\* appended when it has one.
C21_VersionHasThreeComponents ==
    last.op = "parse"
    => /\ ~last.panicked
       /\ Len(Split(last.version)) = 3
       /\ last.version \in {last.arg, last.arg \o ".0", last.arg \o ".0.0"}

--------------------------------------------------------------------------
(* Action::Init and files::create_project: the dependencies named are    *)
(* taken from the store or resolved from crates.io, then the project     *)
(* directory, its Cargo.toml (a text), its src/main.rs (lines) and its   *)
(* .gitignore are written and `git init` is run.                         *)

MaxDeps == 2

ProjectName == "proj"
ProjectEntries == {"proj/Cargo.toml", "proj/src", "proj/.git", "proj/.gitignore"}
ProjectPaths == {"proj", "proj/src/main.rs"} \cup ProjectEntries

\* MAIN_SNIP
MainSnip == <<"fn main() {", "    println!(\"Hello, limp!\");", "}">>

\* The loop of Action::Init over deps from position i on, answers[i] what
\* from_cratesio returns if it is called for deps[i]: [err, deps, fetched],
\* fetched the names from_cratesio was called for, in order.
RECURSIVE ResultDeps(_, _, _, _, _)
ResultDeps(storage, deps, answers, i, acc) ==
    IF i > Len(deps) THEN acc
    ELSE IF IsSome(get(storage, deps[i]))
    THEN ResultDeps(storage, deps, answers, i + 1,
                    [acc EXCEPT !.deps = Append(@, Unwrap(get(storage, deps[i])))])
    ELSE IF ~IsOk(new(deps[i], answers[i]))
    THEN [acc EXCEPT !.err = new(deps[i], answers[i]).err,
                     !.fetched = Append(@, deps[i])]
    ELSE ResultDeps(storage, deps, answers, i + 1,
                    [acc EXCEPT !.deps = Append(@, Unwrap(new(deps[i], answers[i]).val)),
                                !.fetched = Append(@, deps[i])])

\* DepLines with each record rendered as name = "version".
RECURSIVE DepLinesPlain(_)
DepLinesPlain(deps) ==
    IF deps = <<>> THEN ""
    ELSE Head(deps).name \o " = \"" \o Head(deps).version \o "\"\n"
         \o DepLinesPlain(Tail(deps))

\* The lines create_project writes to Cargo.toml for the dependencies.
RECURSIVE DepLines(_)
DepLines(deps) ==
    IF deps = <<>> THEN "" ELSE Display(Head(deps)) \o "\n" \o DepLines(Tail(deps))

\* Cargo.toml as create_project writes it.
ProjectToml(name, deps) ==
    "[package]\nname = \"" \o name \o "\"\nversion = \"0.1.0\"\nedition = \"2021\"\n\n[dependencies]\n"
    \o (IF IsSome(deps) THEN DepLines(Unwrap(deps)) ELSE "")

\* Op applied to the value of e, e worked out once.
Once(Op(_), e) == CHOOSE r \in {Op(x) : x \in {e}} : TRUE

\* One turn of the loop of load_from_deps, se what from_file returned: its
\* imports and body are pushed when it is Ok, and skipped when it is an Err.
WithSnippet(acc, se) ==
    [imports |-> acc.imports
         \o (IF IsOk(se.res) /\ IsSome(Unwrap(se.res.val).imports)
             THEN Unwrap(Unwrap(se.res.val).imports) ELSE <<>>),
     body |-> acc.body
         \o (IF IsOk(se.res) /\ IsSome(Unwrap(se.res.val).body)
             THEN Unwrap(Unwrap(se.res.val).body) ELSE <<>>),
     fs |-> se.fs]

\* parser::load_from_deps from position i on: [imports, body, fs]. from_file
\* opens, and so creates, each path before it looks at its extension.
RECURSIVE LoadFromDeps(_, _, _)
LoadFromDeps(deps, i, acc) ==
    IF i > Len(deps) THEN acc
    ELSE IF ~IsSome(deps[i].path_to_snippet) THEN LoadFromDeps(deps, i + 1, acc)
    ELSE Once(LAMBDA se : Once(LAMBDA nx : LoadFromDeps(deps, i + 1, nx),
                               WithSnippet(acc, se)),
              from_file(acc.fs, Unwrap(deps[i].path_to_snippet)))

\* parser::load_from_deps: [val, fs], val the lines of
\* format!("{}\n\n{}", imports, body), or None when no body was read.
load_from_deps(files, deps) ==
    Once(LAMBDA all :
            [val |-> IF all.body = <<>> THEN None
                     ELSE Some((IF all.imports = <<>> THEN <<"">> ELSE all.imports)
                               \o <<"">> \o all.body),
             fs |-> all.fs],
         LoadFromDeps(deps, 1, [imports |-> <<>>, body |-> <<>>, fs |-> files]))

\* create_project from the main snippet on: main.rs is written, git runs (it
\* works, it fails, or it cannot be started), .gitignore is written.
ProjectWritten(files, main_snippet, git) ==
    CASE git = "ok" ->
           [res |-> Ok("unit"),
            fs |-> [files EXCEPT !["proj/src"] = Dir,
                                 !["proj/src/main.rs"] = File(main_snippet),
                                 !["proj/.git"] = Dir,
                                 !["proj/.gitignore"] = File(<<"/target">>)]]
      [] git = "failed" ->
           [res |-> Err("GitError"),
            fs |-> [files EXCEPT !["proj/src"] = Dir,
                                 !["proj/src/main.rs"] = File(main_snippet)]]
      [] OTHER ->
           [res |-> Err("IOError"),
            fs |-> [files EXCEPT !["proj/src"] = Dir,
                                 !["proj/src/main.rs"] = File(main_snippet)]]

\* files::create_project: [res, fs].
create_project(files, name, deps, git) ==
    IF files["proj"].kind = "file" THEN [res |-> Err("IOError"), fs |-> files]
    ELSE IF exists(files["proj"]) /\ \E e \in ProjectEntries : exists(files[e])
    THEN [res |-> Err("CrateExistsNotEmpty"), fs |-> files]
    ELSE IF ~IsSome(deps)
    THEN ProjectWritten([files EXCEPT !["proj"] = Dir,
                                      !["proj/Cargo.toml"] = File(ProjectToml(name, deps))],
                        MainSnip, git)
    ELSE Once(LAMBDA snip :
                 ProjectWritten(snip.fs,
                                IF IsSome(snip.val) THEN Unwrap(snip.val) ELSE MainSnip,
                                git),
              load_from_deps([files EXCEPT !["proj"] = Dir,
                                           !["proj/Cargo.toml"] =
                                               File(ProjectToml(name, deps))],
                             Unwrap(deps)))

\* What Action::Init leaves: [res, cfg, fs, fetched].
InitCreated(file, created, fetched) ==
    [res |-> created.res, cfg |-> file, fs |-> created.fs, fetched |-> fetched]

\* InitResolved with create_project run whether or not the loop over the
\* names ended with an error.
InitResolvedEager(file, files, name, resolved, git) ==
    Once(LAMBDA created :
            [res |-> IF resolved.err # "" THEN Err(resolved.err) ELSE created.res,
             cfg |-> file, fs |-> created.fs, fetched |-> resolved.fetched],
         create_project(files, name,
                        IF resolved.deps = <<>> THEN None ELSE Some(resolved.deps), git))

\* Action::Init once the store is loaded and the loop over the names has
\* run, resolved what the loop left.
InitResolved(file, files, name, resolved, git) ==
    IF resolved.err # ""
    THEN [res |-> Err(resolved.err), cfg |-> file, fs |-> files, fetched |-> resolved.fetched]
    ELSE Once(LAMBDA created : InitCreated(file, created, resolved.fetched),
              create_project(files, name,
                             IF resolved.deps = <<>> THEN None ELSE Some(resolved.deps),
                             git))

\* Action::Init once the store is loaded.
InitLoaded(loaded, files, name, dependencies, answers, git) ==
    IF ~IsOk(loaded.res)
    THEN [res |-> Err(loaded.res.err), cfg |-> loaded.cfg, fs |-> files, fetched |-> <<>>]
    ELSE Once(LAMBDA resolved : InitResolved(loaded.cfg, files, name, resolved, git),
              ResultDeps(Unwrap(loaded.res.val),
                         IF IsSome(dependencies) THEN Unwrap(dependencies) ELSE <<>>,
                         answers, 1, [err |-> "", deps |-> <<>>, fetched |-> <<>>]))

\* Action::Init: load, the loop over the names, create_project.
InitAction(file, files, name, dependencies, answers, git) ==
    InitLoaded(load(file), files, name, dependencies, answers, git)

\* What Cargo.toml of the project directory names before `init`: nothing, an
\* empty directory, a directory with a manifest, a file.
ProjectStates ==
    {[p \in ProjectPaths |-> Absent],
     [p \in ProjectPaths |-> IF p = "proj" THEN Dir ELSE Absent],
     [p \in ProjectPaths |->
         CASE p = "proj" -> Dir
           [] p = "proj/Cargo.toml" -> File(ProjectToml(ProjectName, None))
           [] OTHER -> Absent],
     [p \in ProjectPaths |-> IF p = "proj" THEN File(<<>>) ELSE Absent]}

\* `limp init proj [NAME ..]`: no names, or up to MaxDeps of them.
InitDeps == {None} \cup {Some(d) : d \in SeqsUpTo(Names, MaxDeps)}

\* One answer of crates.io for each name given, used if the name is fetched.
AnswersFor(deps) ==
    {a \in [1..Len(deps) -> UNION {Catalogue(n) : n \in Names}] :
        \A i \in 1..Len(deps) : a[i] \in Catalogue(deps[i])}

NoInit ==
    [n |-> 0, op |-> "none", dependencies |-> None, answers |-> <<>>, git |-> "ok",
     res |-> Err("none"), fetched |-> <<>>, cfg |-> Absent,
     fs |-> [p \in Paths \cup ProjectPaths |-> Absent]]

InitProject ==
    /\ \E project \in ProjectStates :
          \/ cfg \in {Absent, File(SerdeDoc), File(TwoDoc)} /\ fs = CmdFiles @@ project
          \/ cfg = File(LinkedDoc) /\ fs = LinkedFiles @@ project
    /\ js = EmptyStorage
    /\ pc = "cli"
    /\ last = NoInit

\* One run of limp init proj [NAME ..]: InitAction(cfg, fs, ..), its load of
\* the store file worked out once for all arguments.
CmdInit ==
    /\ pc = "cli"
    /\ \E loaded \in {load(cfg)} :
       \E dependencies \in InitDeps, git \in {"ok", "failed", "missing"} :
          \E answers \in AnswersFor(IF IsSome(dependencies)
                                    THEN Unwrap(dependencies) ELSE <<>>) :
             \E r \in {InitLoaded(loaded, fs, ProjectName, dependencies, answers, git)} :
                /\ cfg' = r.cfg
                /\ fs' = r.fs
                /\ last' = [n |-> last.n + 1, op |-> "init",
                            dependencies |-> dependencies, answers |-> answers,
                            git |-> git, res |-> r.res, fetched |-> r.fetched,
                            cfg |-> cfg, fs |-> fs]
    /\ pc' = "done"
    /\ UNCHANGED js

NextProject == CmdInit

SpecProject == InitProject /\ [][NextProject]_vars

\* The names given to the last `init`, and the project files in a state.
Given == IF IsSome(last.dependencies) THEN Unwrap(last.dependencies) ELSE <<>>
Project(files) == [p \in ProjectPaths |-> files[p]]

\* The name at position i has no record in the store loaded, and crates.io
\* gives no first version for it.
Unresolvable(i) ==
    /\ ~IsSome(Stored[Given[i]])
    /\ \/ ~IsOk(last.answers[i])
       \/ Len(Unwrap(last.answers[i].val).versions) = 0
       \/ ~Unwrap(last.answers[i].val).versions[1].ok

\* C22: when a name given to `init` is neither in the store nor resolvable
\* from crates.io, the command returns an error and the project directory,
\* its manifest and its source file are as they were before the command; if
\* there was no project directory, an `init` without names still succeeds.
C22_FailedInitCreatesNothing ==
    (/\ last.op = "init"
     /\ IsOk(Persisted(last.cfg))
     /\ \E i \in 1..Len(Given) : Unresolvable(i))
    => /\ ~IsOk(last.res)
       /\ Project(fs) = Project(last.fs)
       /\ ~exists(last.fs["proj"])
          => IsOk(create_project(fs, ProjectName, None, "ok").res)

C22_Witness ==
    /\ last.op = "init"
    /\ last.cfg = File(SerdeDoc)
    /\ Given = <<"serde", "tokio">>
    /\ Unresolvable(2)
    /\ last.res = Err("HttpError")
    /\ ~exists(last.fs["proj"])
    /\ ~exists(fs["proj"])
    /\ ~exists(fs["proj/Cargo.toml"])

\* The line of the name at position i: the display form of its stored record,
\* or of a record with the first version crates.io answers and no features.
ExpectedLine(i) ==
    IF IsSome(Stored[Given[i]]) THEN Display(Unwrap(Stored[Given[i]]))
    ELSE Given[i] \o " = \"" \o Unwrap(last.answers[i].val).versions[1].num \o "\""

RECURSIVE ExpectedLinesFrom(_)
ExpectedLinesFrom(i) ==
    IF i > Len(Given) THEN "" ELSE ExpectedLine(i) \o "\n" \o ExpectedLinesFrom(i + 1)

\* C23: the manifest a successful `init` writes ends, after the
\* [dependencies] header, with one line per name given, in order: the display
\* form of the stored record if the store has one, of the default resolution
\* (first version, no features) otherwise. No `init` changes the records of
\* the store file.
C23_InitLinesFromStoreOrDefault ==
    last.op = "init"
    => /\ Persisted(cfg) = Persisted(last.cfg)
       /\ IsOk(last.res)
          => fs["proj/Cargo.toml"].data
               = "[package]\nname = \"proj\"\nversion = \"0.1.0\"\nedition = \"2021\"\n\n[dependencies]\n"
                 \o ExpectedLinesFrom(1)

C23_Witness ==
    /\ last.op = "init"
    /\ IsOk(last.res)
    /\ last.cfg = File(SerdeDoc)
    /\ Given = <<"serde", "tokio">>
    /\ fs["proj/Cargo.toml"].data
         = "[package]\nname = \"proj\"\nversion = \"0.1.0\"\nedition = \"2021\"\n\n[dependencies]\n"
           \o "serde = \"1.0.0\"\ntokio = \"1.0.0\"\n"
    /\ IsSome(Unwrap(Persisted(cfg).val)["serde"])
    /\ ~IsSome(Unwrap(Persisted(cfg).val)["tokio"])

\* C25: one `init` calls from_cratesio at most once for each name.
C25_OneFetchPerName ==
    last.op = "init"
    => \A i, j \in 1..Len(last.fetched) : i # j => last.fetched[i] # last.fetched[j]

\* The name at position i has a stored record whose snippet path is its
\* managed snippet file, and that file has a body.
HasManagedSnippet(i) ==
    /\ IsSome(Stored[Given[i]])
    /\ Unwrap(Stored[Given[i]]).path_to_snippet = Some(SnippetPath(Given[i]))
    /\ last.fs[SnippetPath(Given[i])].kind = "file"
    /\ IsSome(SnippetEntity(last.fs[SnippetPath(Given[i])].data).body)

\* C28: when a successful `init` is given a name whose stored record has its
\* managed snippet file with a body, src/main.rs is not the default program
\* and holds every line of that snippet.
C28_MainFromSnippets ==
    (/\ last.op = "init"
     /\ IsOk(last.res)
     /\ IsOk(Persisted(last.cfg))
     /\ \E i \in 1..Len(Given) : HasManagedSnippet(i))
    => /\ fs["proj/src/main.rs"].data # MainSnip
       /\ \A i \in 1..Len(Given) :
             HasManagedSnippet(i)
             => Range(last.fs[SnippetPath(Given[i])].data)
                  \subseteq Range(fs["proj/src/main.rs"].data)

--------------------------------------------------------------------------
(* `add` run in a project directory that `init` created: the manifest is *)
(* the one create_project wrote, for no names, one name or two.          *)

ProjectManifests ==
    {File(ProjectToml(ProjectName, deps)) :
        deps \in {None,
                  Some(<<JsonDependency("serde", "1.0.0", None, None)>>),
                  Some(<<JsonDependency("serde", "1.0.0", Some(<<"derive">>), None),
                         JsonDependency("tokio", "1.0.0", None, None)>>)}}

InitProjectAdd ==
    /\ cfg \in CmdStoreFiles
    /\ fs \in {<<manifest, Absent>> : manifest \in ProjectManifests}
    /\ js = EmptyStorage
    /\ pc = "cli"
    /\ last = NoAdd

SpecProjectAdd == InitProjectAdd /\ [][NextManifest]_vars

\* Where the lines of a manifest that give a version to `name` start: at the
\* start of the text or after a line feed, with `name = `.
LinesOf(text, name) ==
    {p \in 1..Len(text) :
        /\ p = 1 \/ SubSeq(text, p - 1, p - 1) = "\n"
        /\ p + Len(name \o " = ") - 1 <= Len(text)
        /\ SubSeq(text, p, p + Len(name \o " = ") - 1) = name \o " = "}

\* C30: the manifest of a project made by `init` has, after any `add`
\* commands, at most one dependency line for each name.
C30_OneLinePerName ==
    \A name \in Names : Cardinality(LinesOf(fs[1].data, name)) <= 1

=============================================================================
